---- MODULE Spec2Model ----
(***************************************************************************)
(* A model of the symbol refinement and code-synthesis engine of           *)
(* vscode-cmantic (CSymbol.ts and its callers).                            *)
(*                                                                         *)
(* Documents are sequences of lexemes.  Every lexeme (an identifier, a     *)
(* punctuation mark, one blank, one line break) occupies one offset, so    *)
(* an offset of the model counts lexemes where the program counts          *)
(* characters.  A vscode.Position is modelled by its offset                *)
(* (document.offsetAt / positionAt are monotone inverses of each other).   *)
(***************************************************************************)
EXTENDS Integers, Sequences, FiniteSets, TLC

VARIABLES
    input,             \* what the document under query was written from
    document,          \* SourceDocument text of the symbol under query (lexemes)
    symbol,            \* the CSymbol under query
    accessCache,       \* CSymbol._accessSpecifiers: <<>> or <<the specifiers>>
    result             \* the value returned by the last query

vars == <<input, document, symbol, accessCache, result>>

-----------------------------------------------------------------------------
(* Bounds of the model                                                     *)

MaxItems == 2

-----------------------------------------------------------------------------
(* Lexemes                                                                 *)

White == {" ", "\n"}

Punct == {":", ";", "{", "}", "(", ")", "<", ">", "=", ",", "//", "/*", "*/", "&", "*", "\""}

IsWord(t) == t \notin White /\ t \notin Punct

Min(a, b) == IF a <= b THEN a ELSE b

Max(a, b) == IF a >= b THEN a ELSE b

\* String.prototype.substring(a, b) on a lexeme sequence, 0-based, end exclusive.
Substring(text, a, b) == SubSeq(text, Max(a, 0) + 1, Min(b, Len(text)))

\* String.prototype.slice(a) / substring(a)
SubstringFrom(text, a) == Substring(text, a, Len(text))

\* ' '.repeat(n)
Spaces(n) == [i \in 1..n |-> " "]

\* String.prototype.indexOf(t): 0-based index of the first t, -1 if none.
IndexOf(text, t) ==
    IF \E i \in 1..Len(text) : text[i] = t
    THEN (CHOOSE i \in 1..Len(text) : text[i] = t /\ \A j \in 1..(i-1) : text[j] # t) - 1
    ELSE -1

\* String.prototype.lastIndexOf(t)
LastIndexOf(text, t) ==
    IF \E i \in 1..Len(text) : text[i] = t
    THEN (CHOOSE i \in 1..Len(text) : text[i] = t /\ \A j \in (i+1)..Len(text) : text[j] # t) - 1
    ELSE -1

\* vscode.Range: the constructor orders its two positions.
Range(a, b) == [start |-> Min(a, b), end |-> Max(a, b)]

\* Range.contains(position): both ends inclusive.
RangeContains(r, p) == r.start <= p /\ p <= r.end

\* document.getText(range)
GetText(doc, r) == Substring(doc, r.start, r.end)

-----------------------------------------------------------------------------
(* Lexical Masker (parsing.ts)                                             *)

\* The mask keeps line breaks (masking is line-preserving).
MaskTok(t) == IF t = "\n" THEN "\n" ELSE " "

RECURSIVE MaskBalancedFrom(_, _, _, _, _, _)
MaskBalancedFrom(text, i, depth, left, right, keepEnclosingChars) ==
    IF i > Len(text) THEN <<>>
    ELSE LET t == text[i] IN
         IF t = left
         THEN <<(IF depth = 0 /\ keepEnclosingChars THEN t ELSE MaskTok(t))>>
              \o MaskBalancedFrom(text, i + 1, depth + 1, left, right, keepEnclosingChars)
         ELSE IF t = right /\ depth > 0
         THEN <<(IF depth = 1 /\ keepEnclosingChars THEN t ELSE MaskTok(t))>>
              \o MaskBalancedFrom(text, i + 1, depth - 1, left, right, keepEnclosingChars)
         ELSE <<(IF depth > 0 THEN MaskTok(t) ELSE t)>>
              \o MaskBalancedFrom(text, i + 1, depth, left, right, keepEnclosingChars)

maskBalanced(text, left, right, keepEnclosingChars) ==
    MaskBalancedFrom(text, 1, 0, left, right, keepEnclosingChars)

maskParentheses(text) == maskBalanced(text, "(", ")", TRUE)

maskBraces(text) == maskBalanced(text, "{", "}", TRUE)

maskAngleBrackets(text, keepEnclosingChars) == maskBalanced(text, "<", ">", keepEnclosingChars)

\* mode: "code", "line" (inside a // comment), "block" (inside /* */), "str"
RECURSIVE MaskCommentsFrom(_, _, _, _, _)
MaskCommentsFrom(text, i, mode, keepEnclosingChars, strings) ==
    IF i > Len(text) THEN <<>>
    ELSE LET t == text[i]
             keep(x) == IF keepEnclosingChars THEN x ELSE MaskTok(x)
         IN
         CASE mode = "code" /\ t = "//" ->
                <<keep(t)>> \o MaskCommentsFrom(text, i + 1, "line", keepEnclosingChars, strings)
           [] mode = "code" /\ t = "/*" ->
                <<keep(t)>> \o MaskCommentsFrom(text, i + 1, "block", keepEnclosingChars, strings)
           [] mode = "code" /\ t = "\"" /\ strings ->
                <<t>> \o MaskCommentsFrom(text, i + 1, "str", keepEnclosingChars, strings)
           [] mode = "line" /\ t = "\n" ->
                <<t>> \o MaskCommentsFrom(text, i + 1, "code", keepEnclosingChars, strings)
           [] mode = "block" /\ t = "*/" ->
                <<keep(t)>> \o MaskCommentsFrom(text, i + 1, "code", keepEnclosingChars, strings)
           [] mode = "str" /\ t = "\"" ->
                <<t>> \o MaskCommentsFrom(text, i + 1, "code", keepEnclosingChars, strings)
           [] OTHER ->
                <<(IF mode = "code" THEN t ELSE MaskTok(t))>>
                \o MaskCommentsFrom(text, i + 1, mode, keepEnclosingChars, strings)

\* parse.maskComments(text, keepEnclosingChars = true)
maskComments(text, keepEnclosingChars) == MaskCommentsFrom(text, 1, "code", keepEnclosingChars, FALSE)

\* parse.maskNonSourceText: comments (delimiters included) and the contents of
\* string literals are blanked.
maskNonSourceText(text) == MaskCommentsFrom(text, 1, "code", FALSE, TRUE)

-----------------------------------------------------------------------------
(* Documents and the symbol tree the language server reports for them      *)

\* A SourceSymbol: kind, name, range, selectionRange (the name), children,
\* and the name of the parent ("" at top level).
Sym(kind, name, range, sel, children, parent) ==
    [kind |-> kind, name |-> name, range |-> range, selectionRange |-> sel,
     children |-> children, parent |-> parent]

NoSymbol == Sym("none", "", Range(0, 0), Range(0, 0), <<>>, "")

ClassName == "C"

\* The members a class body is made of.
ItemIds == {"pub", "priv", "prot", "field", "decl", "def", "ctor", "defarg", "nested", "bcmt", "lcmt"}

ItemToks(id) ==
    CASE id = "pub"    -> <<"public", ":">>
      [] id = "priv"   -> <<"private", ":">>
      [] id = "prot"   -> <<"protected", " ", ":">>
      [] id = "field"  -> <<"int", " ", "a", ";">>
      [] id = "decl"   -> <<"void", " ", "set_a", "(", "int", ")", ";">>
      [] id = "def"    -> <<"int", " ", "get_a", "(", ")", " ", "{", "}">>
      [] id = "ctor"   -> <<"C", "(", ")", " ", ":", " ", "a", "(", "1", ")", " ", "{", "}">>
      [] id = "defarg" -> <<"void", " ", "g", "(", "T", " ", "x", " ", "=", " ", "{", "}", ")", ";">>
      [] id = "nested" -> <<"struct", " ", "N", " ", "{", " ", "private", ":", " ", "}", ";">>
      [] id = "sfield" -> <<"auto", " ", "a", " ", "=", " ", "\"", "x", "\"", ";">>
      [] id = "cfield" -> <<"const", " ", "int", " ", "a", ";">>
      [] id = "deleted"   -> <<"C", "(", ")", " ", "=", " ", "delete", ";">>
      [] id = "defaulted" -> <<"C", "(", ")", " ", "=", "default", ";">>
      [] id = "pure"      -> <<"virtual", " ", "void", " ", "f", "(", ")", " ", "=", " ", "0", ";">>
      [] id = "purefinal" -> <<"void", " ", "f", "(", ")", " ", "final", " ", "=", "0", " ", ";">>
      [] id = "zeroarg"   -> <<"void", " ", "g", "(", "int", " ", "x", " ", "=", " ", "0", ")", ";">>
      [] id = "zerofield" -> <<"int", " ", "a", " ", "=", " ", "0", ";">>
      [] id = "bcmt"   -> <<"/*", "public", ":", "*/">>
      [] id = "lcmt"   -> <<"//", "note", "\n">>

\* kind, name and the offset of the name inside the item; "" for text that
\* is no symbol (access specifiers, comments).
ItemKind(id) ==
    CASE id = "field"  -> "field"
      [] id = "sfield" -> "field"
      [] id = "cfield" -> "field"
      [] id = "deleted"   -> "constructor"
      [] id = "defaulted" -> "constructor"
      [] id = "pure"      -> "method"
      [] id = "purefinal" -> "method"
      [] id = "zeroarg"   -> "method"
      [] id = "zerofield" -> "field"
      [] id = "decl"   -> "method"
      [] id = "def"    -> "method"
      [] id = "ctor"   -> "constructor"
      [] id = "defarg" -> "method"
      [] id = "nested" -> "struct"
      [] OTHER         -> ""

ItemNameAt(id) ==
    IF id \in {"ctor", "deleted", "defaulted"} THEN 0 ELSE IF id \in {"cfield", "pure"} THEN 4 ELSE 2

\* The symbol the language server reports for item id written at offset at
\* inside a scope of kind kw.  Its range stops before the terminating semicolon.
ItemSym(id, at, kw) ==
    LET toks == ItemToks(id)
        len  == IF toks[Len(toks)] = ";" THEN Len(toks) - 1 ELSE Len(toks)
        kind == IF kw # "namespace" THEN ItemKind(id)
                ELSE IF ItemKind(id) = "field" THEN "variable"
                ELSE IF ItemKind(id) = "method" THEN "function"
                ELSE ItemKind(id)
    IN
    Sym(kind, toks[ItemNameAt(id) + 1], Range(at, at + len),
        Range(at + ItemNameAt(id), at + ItemNameAt(id) + 1), <<>>, ClassName)

ItemLevel(id) ==
    CASE id = "pub" -> "public" [] id = "priv" -> "private" [] id = "prot" -> "protected"
      [] OTHER -> ""

\* The body of a scope: each item preceded by the separator sep.  specifiers
\* are the access specifiers as written: their level and where they stand.
RECURSIVE BuildBody(_, _, _, _, _, _, _)
BuildBody(items, i, sep, kw, toks, children, specifiers) ==
    IF i > Len(items) THEN [toks |-> toks, children |-> children, specifiers |-> specifiers]
    ELSE LET id == items[i]
             at == Len(toks) + 1
         IN BuildBody(items, i + 1, sep, kw, toks \o <<sep>> \o ItemToks(id),
                      IF ItemKind(id) = "" THEN children
                      ELSE Append(children, ItemSym(id, at, kw)),
                      IF ItemLevel(id) = "" THEN specifiers
                      ELSE Append(specifiers,
                                  [level |-> ItemLevel(id), start |-> at,
                                   end |-> at + Len(ItemToks(id))]))

TemplateToks == <<"template", "<", "typename", " ", "T", ">", " ">>

BaseToks == <<" ", ":", " ", "public", " ", "B">>

\* parse.getEndOfStatement: the range the language server reports is
\* extended over the semicolons that directly follow it.
RECURSIVE getEndOfStatement(_, _)
getEndOfStatement(doc, end) ==
    IF end < Len(doc) /\ doc[end + 1] = ";" THEN getEndOfStatement(doc, end + 1) ELSE end

\* A document holding one class-type definition or one namespace:
\*   [// doc \n] [template<typename T> ] kw C [: public B] { items } trailer
\*   [// doc \n] namespace [a::]C { items }
\* inRange: the reported range starts at the template statement or the
\* namespace keyword (cpptools), or after it (clangd, ccls).
\* bodyStart, bodyEnd and specifiers tell where the braces and the access
\* specifiers were written.
ClassDoc(in) ==
    LET kw    == in.kw
        pre0  == IF in.comment THEN <<"//", "doc", "\n">> ELSE <<>>
        pre   == IF kw = "namespace" THEN pre0 \o <<"namespace", " ">> \o (IF in.base THEN <<"a", ":", ":">> ELSE <<>>)
                 ELSE (IF in.template THEN pre0 \o TemplateToks ELSE pre0) \o <<kw, " ">>
        head  == pre \o <<ClassName>>
                     \o (IF in.base /\ kw # "namespace" THEN BaseToks ELSE <<>>) \o <<" ", "{">>
        body  == BuildBody(in.items, 1, in.sep, kw, head, <<>>, <<>>)
        txt   == body.toks \o <<in.sep, "}">> \o in.trailer
        start == IF in.inRange THEN Len(pre0)
                 ELSE IF kw = "namespace" THEN Len(pre)
                 ELSE Len(pre) - 2
        end   == Len(body.toks) + 2
        name  == Len(pre)
    IN [document |-> txt,
        symbol |-> Sym(kw, ClassName, Range(start, end), Range(name, name + 1), body.children, ""),
        bodyStart |-> Len(head), bodyEnd |-> Len(body.toks) + 1,
        specifiers |-> body.specifiers]

-----------------------------------------------------------------------------
(* CSymbol (src/src/CSymbol.ts)                                            *)

\* constructor: the range is extended to the end of the statement.
CSymbol(doc, s) ==
    [s EXCEPT !.range = Range(s.range.start, getEndOfStatement(doc, s.range.end))]

isClass(s) == s.kind = "class"

isStruct(s) == s.kind = "struct"

isClassType(s) == s.kind \in {"class", "struct", "union"}

isNamespace(s) == s.kind = "namespace"

isEnum(s) == s.kind = "enum"

isFunction(s) == s.kind \in {"function", "method", "constructor"}

isConstructor(s) == s.kind = "constructor"

isMemberVariable(s) == s.kind = "field"

text(doc, s) == GetText(doc, s.range)

startOffset(s) == s.range.start

endOffset(s) == s.range.end

parsableText(doc, s) == maskNonSourceText(text(doc, s))

parsableLeadingText(doc, s) ==
    Substring(parsableText(doc, s), 0, s.selectionRange.start - startOffset(s))

parsableTrailingText(doc, s) ==
    SubstringFrom(parsableText(doc, s), s.selectionRange.end - startOffset(s))

bodyStart(doc, s) ==
    LET maskedText == maskBraces(maskParentheses(parsableText(doc, s)))
        bodyStartIndex == LastIndexOf(maskedText, "{")
    IN IF bodyStartIndex = -1 THEN s.range.end ELSE startOffset(s) + bodyStartIndex + 1

bodyEnd(doc, s) ==
    LET bodyEndIndex == LastIndexOf(parsableText(doc, s), "}")
    IN IF bodyEndIndex = -1 THEN s.range.end ELSE startOffset(s) + bodyEndIndex

\* SubSymbol: a range of the document and the text it holds.
SubSymbol(doc, range) == [range |-> range, name |-> GetText(doc, range)]

\* The index of the first lexeme at or after i that is not white space.
RECURSIVE SkipWhite(_, _)
SkipWhite(txt, i) ==
    IF i <= Len(txt) /\ txt[i] \in White THEN SkipWhite(txt, i + 1) ELSE i

\* matchAll(/\b[\w_][\w\d_]*\s*:(?!:)/g): the matches from lexeme i on, each
\* as <<index, length>>.
RECURSIVE MatchAllSpecifiers(_, _)
MatchAllSpecifiers(txt, i) ==
    IF i > Len(txt) THEN <<>>
    ELSE LET j == SkipWhite(txt, i + 1) IN
         IF /\ IsWord(txt[i])
            /\ j <= Len(txt) /\ txt[j] = ":"
            /\ (j + 1 > Len(txt) \/ txt[j + 1] # ":")
         THEN <<(<<i - 1, j - i + 1>>)>> \o MatchAllSpecifiers(txt, j + 1)
         ELSE MatchAllSpecifiers(txt, i + 1)

\* children.forEach: blank the text of every child.
RECURSIVE MaskChildren(_, _, _, _)
MaskChildren(doc, s, txt, i) ==
    IF i > Len(s.children) THEN txt
    ELSE LET childCSymbol == CSymbol(doc, s.children[i])
             relativeStartOffset == startOffset(childCSymbol) - startOffset(s)
             relativeEndOffset == endOffset(childCSymbol) - startOffset(s)
         IN MaskChildren(doc, s,
                Substring(txt, 0, relativeStartOffset)
                    \o Spaces(relativeEndOffset - relativeStartOffset)
                    \o SubstringFrom(txt, relativeEndOffset),
                i + 1)

accessSpecifiers(doc, s) ==
    IF ~isClassType(s) THEN <<>>
    ELSE LET masked == maskParentheses(MaskChildren(doc, s, parsableText(doc, s), 1))
             found == MatchAllSpecifiers(masked, 1)
         IN [k \in 1..Len(found) |->
                SubSymbol(doc, Range(startOffset(s) + found[k][1],
                                     startOffset(s) + found[k][1] + found[k][2]))]

AccessLevels == {"public", "protected", "private"}

\* util.accessSpecifierRegexp(access).test(name): /\b<access>\s*:/
accessSpecifierTest(access, name) ==
    \E i \in 1..Len(name) :
        /\ name[i] = access
        /\ LET j == SkipWhite(name, i + 1) IN j <= Len(name) /\ name[j] = ":"

\* The loop of rangesOfAccess: start is <<TRUE, position>> or <<FALSE, 0>>.
RECURSIVE RangesLoop(_, _, _, _, _, _, _)
RangesLoop(doc, s, access, specs, k, start, ranges) ==
    IF k > Len(specs)
    THEN IF start[1] THEN Append(ranges, Range(start[2], bodyEnd(doc, s))) ELSE ranges
    ELSE LET accessSpecifier == specs[k] IN
         IF accessSpecifierTest(access, accessSpecifier.name)
         THEN RangesLoop(doc, s, access, specs, k + 1, <<TRUE, accessSpecifier.range.end>>,
                  IF start[1] THEN Append(ranges, Range(start[2], accessSpecifier.range.start))
                  ELSE ranges)
         ELSE IF start[1]
         THEN RangesLoop(doc, s, access, specs, k + 1, <<FALSE, 0>>,
                  Append(ranges, Range(start[2], accessSpecifier.range.start)))
         ELSE RangesLoop(doc, s, access, specs, k + 1, start, ranges)

rangesOfAccessFrom(doc, s, access, specs) ==
    LET start == IF access = "private" /\ isClass(s) THEN <<TRUE, bodyStart(doc, s)>>
                 ELSE IF access = "public" /\ isStruct(s) THEN <<TRUE, bodyStart(doc, s)>>
                 ELSE <<FALSE, 0>>
    IN RangesLoop(doc, s, access, specs, 1, start, <<>>)

rangesOfAccess(doc, s, access) == rangesOfAccessFrom(doc, s, access, accessSpecifiers(doc, s))

positionHasAccess(doc, s, position, access) ==
    LET ranges == rangesOfAccess(doc, s, access) IN
    \E k \in 1..Len(ranges) : RangeContains(ranges[k], position)

-----------------------------------------------------------------------------
(* Lines of a document (vscode.TextDocument.lineAt)                        *)

lineCountBefore(doc, offset) == Cardinality({k \in 1..Min(offset, Len(doc)) : doc[k] = "\n"})

\* Position.line of the position at offset
LineOf(doc, offset) == lineCountBefore(doc, offset)

\* the offset at which line `line` starts
LineStart(doc, line) ==
    IF line = 0 THEN 0
    ELSE CHOOSE o \in 1..Len(doc) : doc[o] = "\n" /\ lineCountBefore(doc, o) = line

\* lineAt(line).range.end: the offset of the line break ending the line
LineEnd(doc, line) ==
    LET from == LineStart(doc, line) IN
    IF \E o \in (from + 1)..Len(doc) : doc[o] = "\n"
    THEN (CHOOSE o \in (from + 1)..Len(doc) :
             doc[o] = "\n" /\ \A k \in (from + 1)..(o - 1) : doc[k] # "\n") - 1
    ELSE Len(doc)

LineText(doc, line) == Substring(doc, LineStart(doc, line), LineEnd(doc, line))

\* String.prototype.trimEnd(): the length left after trimming
RECURSIVE TrimEndLen(_, _)
TrimEndLen(txt, n) == IF n > 0 /\ txt[n] \in White THEN TrimEndLen(txt, n - 1) ELSE n

trimEnd(txt) == SubSeq(txt, 1, TrimEndLen(txt, Len(txt)))

trimStart(txt) == SubSeq(txt, SkipWhite(txt, 1), Len(txt))

endsWith(txt, t) == Len(txt) > 0 /\ txt[Len(txt)] = t

startsWith(txt, t) == Len(txt) > 0 /\ txt[1] = t

-----------------------------------------------------------------------------
(* Predicates of CSymbol                                                   *)

\* /(\s*;)*$/ from lexeme i on: blanks and semicolons, ending in a semicolon
\* when there is one.
SemicolonTail(txt, i) ==
    /\ \A k \in i..Len(txt) : txt[k] \in White \cup {";"}
    /\ (\E k \in i..Len(txt) : txt[k] = ";") => txt[Len(txt)] = ";"

\* /}\s*(\s*;)*$/
EndsWithBody(txt) == \E i \in 1..Len(txt) : txt[i] = "}" /\ SemicolonTail(txt, i + 1)

\* /\s*=\s*(delete|default)\s*(\s*;)*$/
isDeletedOrDefaulted(doc, s) ==
    LET txt == parsableText(doc, s) IN
    \E i \in 1..Len(txt) :
        /\ txt[i] = "="
        /\ LET j == SkipWhite(txt, i + 1) IN
           /\ j <= Len(txt)
           /\ txt[j] \in {"delete", "default"}
           /\ SemicolonTail(txt, j + 1)

\* /\s*=\s*0\s*(\s*;)*$/ (without the isVirtual conjunct)
EndsWithEqualsZero(txt) ==
    \E i \in 1..Len(txt) :
        /\ txt[i] = "="
        /\ LET j == SkipWhite(txt, i + 1) IN
           /\ j <= Len(txt)
           /\ txt[j] = "0"
           /\ SemicolonTail(txt, j + 1)

\* /\s*{|\s*;$/ searched in txt: the index (0-based) of the leftmost match, -1 if none.
SearchBodyStart(txt) ==
    LET hit(p) == LET j == SkipWhite(txt, p) IN
                  /\ j <= Len(txt)
                  /\ \/ txt[j] = "{"
                     \/ (txt[j] = ";" /\ j = Len(txt))
    IN IF \E p \in 1..Len(txt) : hit(p)
       THEN (CHOOSE p \in 1..Len(txt) : hit(p) /\ \A q \in 1..(p - 1) : ~hit(q)) - 1
       ELSE -1

\* /\s*:(?!:)/ searched in txt
SearchInitializer(txt) ==
    LET hit(p) == LET j == SkipWhite(txt, p) IN
                  /\ j <= Len(txt)
                  /\ txt[j] = ":"
                  /\ (j + 1 > Len(txt) \/ txt[j + 1] # ":")
    IN IF \E p \in 1..Len(txt) : hit(p)
       THEN (CHOOSE p \in 1..Len(txt) : hit(p) /\ \A q \in 1..(p - 1) : ~hit(q)) - 1
       ELSE -1

\* declarationEnd(), once the masked text was searched for the body:
\* bodyStartIndex is the result of that search.
DeclarationEndFrom(s, maskedText, nameEndIndex, bodyStartIndex) ==
    LET initializerIndex ==
            SearchInitializer(Substring(maskedText, nameEndIndex, bodyStartIndex + nameEndIndex))
    IN IF bodyStartIndex = -1 THEN s.range.end
       ELSE IF ~isConstructor(s) THEN startOffset(s) + nameEndIndex + bodyStartIndex
       ELSE IF initializerIndex = -1 THEN startOffset(s) + nameEndIndex + bodyStartIndex
       ELSE startOffset(s) + nameEndIndex + initializerIndex

declarationEnd(doc, s) ==
    LET maskedText == maskParentheses(parsableText(doc, s))
        nameEndIndex == s.selectionRange.end - startOffset(s)
    IN DeclarationEndFrom(s, maskedText, nameEndIndex,
                          SearchBodyStart(SubstringFrom(maskedText, nameEndIndex)))

ContainsWord(txt, w) == \E i \in 1..Len(txt) : txt[i] = w

isVirtual(doc, s) ==
    \/ ContainsWord(parsableLeadingText(doc, s), "virtual")
    \/ LET endIndex == declarationEnd(doc, s) - s.selectionRange.end
           maskedTrailingText ==
               maskParentheses(Substring(parsableTrailingText(doc, s), 0, endIndex))
       IN ContainsWord(maskedTrailingText, "override") \/ ContainsWord(maskedTrailingText, "final")

isPureVirtual(doc, s) == EndsWithEqualsZero(parsableText(doc, s)) /\ isVirtual(doc, s)

\* isFunctionDeclaration telling by the body alone
isFunctionDeclarationByBody(doc, s) == isFunction(s) /\ ~EndsWithBody(parsableText(doc, s))

isFunctionDeclaration(doc, s) ==
    /\ isFunction(s)
    /\ ~EndsWithBody(parsableText(doc, s))
    /\ ~isDeletedOrDefaulted(doc, s)
    /\ ~isPureVirtual(doc, s)

isFunctionDefinition(doc, s) ==
    /\ isFunction(s)
    /\ EndsWithBody(parsableText(doc, s))
    /\ ~isDeletedOrDefaulted(doc, s)
    /\ ~isPureVirtual(doc, s)

-----------------------------------------------------------------------------
(* Boundary recovery                                                       *)

\* (\s*::\s*(inline\s*)?[\w_][\w\d_]*)*(\s*::\s*)?$ from lexeme i on
RECURSIVE NamespaceChain(_, _)
NamespaceChain(txt, i) ==
    \/ i > Len(txt)
    \/ LET j == SkipWhite(txt, i) IN
       /\ j + 1 <= Len(txt)
       /\ txt[j] = ":" /\ txt[j + 1] = ":"
       /\ LET k == SkipWhite(txt, j + 2) IN
          \/ k > Len(txt)
          \/ (IsWord(txt[k]) /\ NamespaceChain(txt, k + 1))
          \/ /\ txt[k] = "inline"
             /\ LET m == SkipWhite(txt, k + 1) IN
                m <= Len(txt) /\ IsWord(txt[m]) /\ NamespaceChain(txt, m + 1)

\* /\b(inline\s*)?namespace\s*[\w_][\w\d_]*(\s*::\s*(inline\s*)?[\w_][\w\d_]*)*(\s*::\s*)?$/
NamespaceAt(txt, p) ==
    LET statement(q) ==
            /\ q <= Len(txt) /\ txt[q] = "namespace"
            /\ LET r == SkipWhite(txt, q + 1) IN
               r <= Len(txt) /\ IsWord(txt[r]) /\ NamespaceChain(txt, r + 1)
    IN \/ statement(p)
       \/ (txt[p] = "inline" /\ statement(SkipWhite(txt, p + 1)))

\* /\b(template\s*<\s*>\s*)$/ at lexeme p, in text that was trimmed at its end
TemplateAt(txt, p) ==
    /\ txt[p] = "template"
    /\ LET j == SkipWhite(txt, p + 1) IN
       /\ j <= Len(txt) /\ txt[j] = "<"
       /\ LET k == SkipWhite(txt, j + 1) IN
          /\ k <= Len(txt) /\ txt[k] = ">"
          /\ SkipWhite(txt, k + 1) > Len(txt)

\* String.prototype.search for a pattern tested by hit(p) at lexeme p
FirstHit(n, hit(_)) ==
    IF \E p \in 1..n : hit(p)
    THEN (CHOOSE p \in 1..n : hit(p) /\ \A q \in 1..(p - 1) : ~hit(q)) - 1
    ELSE -1

\* trueStart(), once the text before the symbol was masked: maskedAngles
\* is that text with its angle brackets masked and its end trimmed.
TrueStartFrom(s, maskedText, maskedAngles) ==
    LET namespaceStartOffset ==
            FirstHit(Len(maskedText), LAMBDA p : NamespaceAt(maskedText, p))
        templateOffset ==
            FirstHit(Len(maskedAngles), LAMBDA p : TemplateAt(maskedAngles, p))
    IN IF isNamespace(s)
       THEN IF namespaceStartOffset = -1 THEN s.range.start ELSE namespaceStartOffset
       ELSE IF ~endsWith(maskedAngles, ">") THEN s.range.start
       ELSE IF templateOffset = -1 THEN s.range.start
       ELSE templateOffset

trueStart(doc, s) ==
    LET before == Range(0, s.range.start)
        maskedText == maskComments(GetText(doc, before), FALSE)
    IN TrueStartFrom(s, maskedText, trimEnd(maskAngleBrackets(maskedText, TRUE)))

\* trueEnd with the semicolon looked for in the text as it is written
trueEndUnmasked(doc, s) ==
    LET end == Len(doc)
        indexOfSemiColon == IndexOf(GetText(doc, Range(s.range.end, end)), ";")
    IN IF \/ endsWith(parsableText(doc, s), ";")
          \/ isNamespace(s)
          \/ isFunctionDefinition(doc, s)
       THEN s.range.end
       ELSE IF (isClassType(s) \/ isEnum(s)) /\ indexOfSemiColon # -1
       THEN endOffset(s) + indexOfSemiColon + 1
       ELSE s.range.end

trueEnd(doc, s) ==
    LET end == Len(doc)
        maskedText == maskNonSourceText(GetText(doc, Range(s.range.end, end)))
        indexOfSemiColon == IndexOf(maskedText, ";")
    IN IF \/ endsWith(parsableText(doc, s), ";")
          \/ isNamespace(s)
          \/ isFunctionDefinition(doc, s)
       THEN s.range.end
       ELSE IF (isClassType(s) \/ isEnum(s)) /\ indexOfSemiColon # -1
       THEN endOffset(s) + indexOfSemiColon + 1
       ELSE s.range.end

\* /^(template(\s*<\s*>)?\s*)*/: the length of the match that starts at lexeme i
RECURSIVE TemplateStatementsLen(_, _)
TemplateStatementsLen(txt, i) ==
    IF i <= Len(txt) /\ txt[i] = "template"
    THEN LET j == SkipWhite(txt, i + 1)
             k == SkipWhite(txt, j + 1)
             after == IF j <= Len(txt) /\ txt[j] = "<" /\ k <= Len(txt) /\ txt[k] = ">"
                      THEN k + 1 ELSE i + 1
         IN TemplateStatementsLen(txt, SkipWhite(txt, after))
    ELSE i - 1

declarationStartWholeText(doc, s) == startOffset(s) + Len(parsableLeadingText(doc, s)) + 1

declarationStart(doc, s) ==
    IF ~startsWith(parsableLeadingText(doc, s), "template") THEN s.range.start
    ELSE LET maskedLeadingText == maskAngleBrackets(parsableLeadingText(doc, s), TRUE)
         IN startOffset(s) + TemplateStatementsLen(maskedLeadingText, 1)

\* replace(/[ \t]*<eol>?[ \t]*$/, ''): the length that is left
RECURSIVE TrimBlanksLen(_, _)
TrimBlanksLen(txt, n) == IF n > 0 /\ txt[n] = " " THEN TrimBlanksLen(txt, n - 1) ELSE n

TrimEndOfLine(txt) ==
    LET a == TrimBlanksLen(txt, Len(txt))
        b == IF a > 0 /\ txt[a] = "\n" THEN a - 1 ELSE a
    IN SubSeq(txt, 1, TrimBlanksLen(txt, b))

\* the for loop of leadingCommentStart over the lines above trueStart
RECURSIVE LeadingLineComment(_, _, _)
LeadingLineComment(doc, i, fallback) ==
    IF i < 0 THEN fallback
    ELSE IF ~startsWith(trimStart(LineText(doc, i)), "//")
    THEN LET indexOfComment == IndexOf(LineText(doc, i + 1), "//") IN
         IF indexOfComment = -1 THEN fallback
         ELSE LineStart(doc, i + 1) + indexOfComment
    ELSE LeadingLineComment(doc, i - 1, fallback)

\* leadingCommentStart(), given this.trueStart and the masked text before it
LeadingCommentStartFrom(doc, start, maskedText) ==
    LET commentStartOffset == LastIndexOf(maskedText, "/*")
    IN IF ~endsWith(maskedText, "//") /\ ~endsWith(maskedText, "*/") THEN start
       ELSE IF endsWith(maskedText, "*/")
       THEN IF commentStartOffset # -1 THEN commentStartOffset ELSE start
       ELSE LeadingLineComment(doc, LineOf(doc, start) - 1, start)

leadingCommentStart(doc, s) ==
    LET before == Range(0, trueStart(doc, s))
    IN LeadingCommentStartFrom(doc, before.end,
                               TrimEndOfLine(maskComments(GetText(doc, before), TRUE)))

\* trailingCommentEnd(), given this.trueEnd and the text of the document after it
TrailingCommentEndFrom(doc, end, documentTrailingText) ==
    LET maskedTrailingText == maskComments(documentTrailingText, TRUE)
        commentEndIndex == IndexOf(maskedTrailingText, "*/")
    IN IF ContainsWord(documentTrailingText, "//")
       THEN LineEnd(doc, LineOf(doc, end))
       ELSE IF ContainsWord(documentTrailingText, "/*") /\ commentEndIndex # -1
       THEN end + commentEndIndex + 1
       ELSE end

trailingCommentEnd(doc, s) ==
    LET documentEnd == Len(doc)
        after == Range(trueEnd(doc, s), documentEnd)
    IN TrailingCommentEndFrom(doc, after.start, GetText(doc, after))

\* newFunctionDeclaration() without the test of the symbol and starting at
\* the start of the reported range
newFunctionDeclarationFromRangeStart(doc, s) ==
    trimEnd(GetText(doc, Range(s.range.start, declarationEnd(doc, s)))) \o <<";">>

newFunctionDeclaration(doc, s) ==
    IF ~isFunctionDefinition(doc, s) THEN <<>>
    ELSE trimEnd(GetText(doc, Range(trueStart(doc, s), declarationEnd(doc, s)))) \o <<";">>

-----------------------------------------------------------------------------
(* Names: identifiers as sequences of characters                           *)

LowerCase == <<"a", "b", "c", "d", "e", "g", "i", "k", "l", "m", "n", "o", "s", "t", "u", "v">>

UpperCase == <<"A", "B", "C", "D", "E", "G", "I", "K", "L", "M", "N", "O", "S", "T", "U", "V">>

IsLower(c) == \E k \in 1..Len(LowerCase) : LowerCase[k] = c

IsUpper(c) == \E k \in 1..Len(UpperCase) : UpperCase[k] = c

toUpperCase(c) ==
    IF IsLower(c) THEN UpperCase[CHOOSE k \in 1..Len(LowerCase) : LowerCase[k] = c] ELSE c

toLowerCase(c) ==
    IF IsUpper(c) THEN LowerCase[CHOOSE k \in 1..Len(UpperCase) : UpperCase[k] = c] ELSE c

\* the string spelled by a sequence of characters
RECURSIVE Join(_)
Join(cs) == IF cs = <<>> THEN "" ELSE Head(cs) \o Join(Tail(cs))

\* The identifiers of the model, spelled out.
AllNames ==
    { <<"a">>, <<"g">>, <<"C">>, <<"N">>,
      <<"s", "e", "t", "_", "a">>, <<"g", "e", "t", "_", "a">>, <<"s", "e", "t", "A">>,
      <<"m", "_", "c", "o", "u", "n", "t">>, <<"c", "o", "u", "n", "t">>,
      <<"_", "c", "o", "u", "n", "t">>, <<"c", "o", "u", "n", "t", "_">>,
      <<"s", "_", "t", "o", "t", "a", "l">>,
      <<"i", "s", "_", "o", "k">>, <<"i", "s", "O", "k">>, <<"I", "s", "O", "k">>,
      <<"m", "_", "i", "s", "O", "k">>, <<"i", "s", "l", "e">>, <<"i", "s">>,
      <<"m", "i", "n", "V", "a", "l">>, <<"M", "i", "n">>, <<"m", "_">>, <<"g", "e", "t">> }

\* the characters of an identifier of a document
CharsOf(name) == CHOOSE cs \in AllNames : Join(cs) = name

\* util.make_snake_case: replace(/(?<!^|_)[A-Z]/g, m => '_' + m).toLowerCase()
RECURSIVE SnakeFrom(_, _)
SnakeFrom(cs, i) ==
    IF i > Len(cs) THEN <<>>
    ELSE (IF IsUpper(cs[i]) /\ i > 1 /\ cs[i - 1] # "_"
          THEN <<"_", toLowerCase(cs[i])>>
          ELSE <<toLowerCase(cs[i])>>)
         \o SnakeFrom(cs, i + 1)

make_snake_case(cs) == SnakeFrom(cs, 1)

\* replace(/_[a-z]/g, m => m.charAt(1).toUpperCase())
RECURSIVE HumpsFrom(_, _)
HumpsFrom(cs, i) ==
    IF i > Len(cs) THEN <<>>
    ELSE IF cs[i] = "_" /\ i < Len(cs) /\ IsLower(cs[i + 1])
    THEN <<toUpperCase(cs[i + 1])>> \o HumpsFrom(cs, i + 2)
    ELSE <<cs[i]>> \o HumpsFrom(cs, i + 1)

\* util.makeCamelCase
makeCamelCase(cs) ==
    LET h == HumpsFrom(cs, 1) IN
    IF h = <<>> THEN h ELSE <<toLowerCase(h[1])>> \o Tail(h)

\* util.MakePascalCase
MakePascalCase(cs) ==
    LET h == HumpsFrom(cs, 1) IN
    IF h = <<>> THEN h ELSE <<toUpperCase(h[1])>> \o Tail(h)

CaseStyles == {"snake_case", "camelCase", "PascalCase"}

\* cfg.formatToCaseStyle(text, uri) under the configured case style
formatToCaseStyle(cs, caseStyle) ==
    CASE caseStyle = "snake_case" -> make_snake_case(cs)
      [] caseStyle = "camelCase"  -> makeCamelCase(cs)
      [] caseStyle = "PascalCase" -> MakePascalCase(cs)

RECURSIVE StripLeading(_, _)
StripLeading(cs, c) == IF cs # <<>> /\ Head(cs) = c THEN StripLeading(Tail(cs), c) ELSE cs

RECURSIVE StripTrailing(_, _)
StripTrailing(cs, c) ==
    IF cs # <<>> /\ cs[Len(cs)] = c THEN StripTrailing(SubSeq(cs, 1, Len(cs) - 1), c) ELSE cs

\* SourceSymbol.baseName(): the name of a member variable without its
\* leading and trailing underscores, or without its m_ or s_ prefix.
baseName(cs) ==
    LET bare == StripTrailing(StripLeading(cs, "_"), "_")
        base == IF bare # cs THEN bare
                ELSE IF Len(cs) > 2 /\ cs[1] \in {"m", "s"} /\ cs[2] = "_"
                THEN SubSeq(cs, 3, Len(cs))
                ELSE cs
    IN IF base = <<>> THEN cs ELSE base

\* /^[iI]s[_A-Z]/.test(cs)
ReadsAsPredicate(cs) ==
    Len(cs) >= 3 /\ cs[1] \in {"i", "I"} /\ cs[2] = "s" /\ (cs[3] = "_" \/ IsUpper(cs[3]))

\* config: [caseStyle, boolGetterIsPrefix], read from the settings at each call
Configs == [caseStyle : CaseStyles, boolGetterIsPrefix : BOOLEAN]

getterNameAlwaysGet(doc, s, config) ==
    IF ~isMemberVariable(s) THEN ""
    ELSE Join(formatToCaseStyle(<<"g", "e", "t", "_">>
                \o formatToCaseStyle(baseName(CharsOf(s.name)), config.caseStyle), config.caseStyle))

getterNameBoolAnywhere(doc, s, config) ==
    IF ~isMemberVariable(s) THEN ""
    ELSE LET formattedBaseName == formatToCaseStyle(baseName(CharsOf(s.name)), config.caseStyle)
         IN IF /\ config.boolGetterIsPrefix
               /\ ContainsWord(parsableLeadingText(doc, s), "bool")
               /\ ~ReadsAsPredicate(formattedBaseName)
            THEN Join(formatToCaseStyle(<<"i", "s", "_">> \o formattedBaseName, config.caseStyle))
            ELSE IF Join(formattedBaseName) # s.name THEN Join(formattedBaseName)
            ELSE Join(formatToCaseStyle(<<"g", "e", "t", "_">> \o formattedBaseName, config.caseStyle))

\* getterName() that answers with the formatted base name also when it is
\* the name of the member variable
getterNameWithoutFallback(doc, s, config) ==
    IF ~isMemberVariable(s) THEN ""
    ELSE LET formattedBaseName == formatToCaseStyle(baseName(CharsOf(s.name)), config.caseStyle)
             maskedLeadingText ==
                 maskParentheses(maskAngleBrackets(parsableLeadingText(doc, s), TRUE))
         IN IF /\ config.boolGetterIsPrefix
               /\ ContainsWord(maskedLeadingText, "bool")
               /\ ~ReadsAsPredicate(formattedBaseName)
            THEN Join(formatToCaseStyle(<<"i", "s", "_">> \o formattedBaseName, config.caseStyle))
            ELSE Join(formattedBaseName)

\* getterName() without the test of the symbol
getterNameOfAnySymbol(doc, s, config) ==
    Join(formatToCaseStyle(<<"g", "e", "t", "_">>
            \o formatToCaseStyle(baseName(<<"a">>), config.caseStyle), config.caseStyle))

getterName(doc, s, config) ==
    IF ~isMemberVariable(s) THEN ""
    ELSE LET formattedBaseName == formatToCaseStyle(baseName(CharsOf(s.name)), config.caseStyle)
             maskedLeadingText ==
                 maskParentheses(maskAngleBrackets(parsableLeadingText(doc, s), TRUE))
         IN IF /\ config.boolGetterIsPrefix
               /\ ContainsWord(maskedLeadingText, "bool")
               /\ ~ReadsAsPredicate(formattedBaseName)
            THEN Join(formatToCaseStyle(<<"i", "s", "_">> \o formattedBaseName, config.caseStyle))
            ELSE IF Join(formattedBaseName) # s.name THEN Join(formattedBaseName)
            ELSE Join(formatToCaseStyle(<<"g", "e", "t", "_">> \o formattedBaseName, config.caseStyle))

setterName(s, config) ==
    IF ~isMemberVariable(s) THEN ""
    ELSE Join(formatToCaseStyle(<<"s", "e", "t", "_">> \o baseName(CharsOf(s.name)), config.caseStyle))

\* children.find(child => child.name === name): <<>> for undefined
FindChildNamed(s, name) ==
    LET found == {k \in 1..Len(s.children) : s.children[k].name = name}
    IN IF found = {} THEN <<>>
       ELSE <<s.children[CHOOSE k \in found : \A j \in found : k <= j]>>

\* findGetterFor(memberVariable); parentIsThis: memberVariable.parent is the
\* object the method is called on
findGetterFor(doc, s, memberVariable, parentIsThis, config) ==
    IF ~parentIsThis \/ ~isMemberVariable(memberVariable) THEN <<>>
    ELSE FindChildNamed(s, getterName(doc, memberVariable, config))

findSetterFor(doc, s, memberVariable, parentIsThis, config) ==
    IF ~parentIsThis \/ ~isMemberVariable(memberVariable) THEN <<>>
    ELSE FindChildNamed(s, setterName(memberVariable, config))

-----------------------------------------------------------------------------
(* Positions for new members                                               *)

\* ProposedPosition(value, options); relativeTo is <<>> or <<range>>.
ProposedPosition(value, relativeTo, before, after, nextTo, indent) ==
    [defined |-> TRUE, value |-> value, relativeTo |-> relativeTo,
     before |-> before, after |-> after, nextTo |-> nextTo, indent |-> indent]

Undefined == [defined |-> FALSE]

getPositionForNewChildBodyEnd(doc, s) ==
    ProposedPosition(bodyEnd(doc, s), <<>>, FALSE, TRUE, FALSE, FALSE)

getPositionForNewChild(doc, s) ==
    IF Len(s.children) > 0
    THEN LET lastChild == CSymbol(doc, s.children[Len(s.children)]) IN
         ProposedPosition(trailingCommentEnd(doc, lastChild), <<lastChild.range>>,
                          FALSE, TRUE, FALSE, FALSE)
    ELSE ProposedPosition(bodyStart(doc, s), <<>>, FALSE, TRUE, TRUE, TRUE)

\* the first loop of findPositionForNewMemberFunction, from child i down
RECURSIVE RelativeLoop(_, _, _, _, _)
RelativeLoop(doc, s, i, relativeName, isGetter) ==
    IF i < 1 THEN Undefined
    ELSE LET child == CSymbol(doc, s.children[i]) IN
         IF child.name = relativeName
         THEN IF isGetter
              THEN ProposedPosition(leadingCommentStart(doc, child), <<child.range>>,
                                    TRUE, FALSE, TRUE, FALSE)
              ELSE ProposedPosition(trailingCommentEnd(doc, child), <<child.range>>,
                                    FALSE, TRUE, TRUE, FALSE)
         ELSE RelativeLoop(doc, s, i - 1, relativeName, isGetter)

\* the second loop, from child i down
\* (ranges: what this.rangesOfAccess(access) returns at every iteration)
RECURSIVE AccessLoop(_, _, _, _)
AccessLoop(doc, s, i, ranges) ==
    IF i < 1 THEN getPositionForNewChild(doc, s)
    ELSE LET child == CSymbol(doc, s.children[i]) IN
         IF \E k \in 1..Len(ranges) : RangeContains(ranges[k], child.range.end)
         THEN ProposedPosition(trailingCommentEnd(doc, child), <<child.range>>,
                               FALSE, TRUE, FALSE, FALSE)
         ELSE AccessLoop(doc, s, i - 1, ranges)

\* relativeName "" and memberVariable NoSymbol stand for arguments left out.
findPositionAccessFirst(doc, s, access, relativeName, memberVariable, config) ==
    IF ~isClassType(s) THEN Undefined
    ELSE LET isGetter == IF memberVariable # NoSymbol
                         THEN relativeName = setterName(memberVariable, config)
                         ELSE FALSE
             named == RelativeLoop(doc, s, Len(s.children), relativeName, isGetter)
         IN IF relativeName # "" /\ named.defined
               /\ positionHasAccess(doc, s, named.relativeTo[1].end, access)
            THEN named
            ELSE AccessLoop(doc, s, Len(s.children), rangesOfAccess(doc, s, access))

findPositionForNewMemberFunction(doc, s, access, relativeName, memberVariable, config) ==
    IF ~isClassType(s) THEN Undefined
    ELSE LET isGetter == IF memberVariable # NoSymbol
                         THEN relativeName = setterName(memberVariable, config)
                         ELSE FALSE
             named == RelativeLoop(doc, s, Len(s.children), relativeName, isGetter)
         IN IF relativeName # "" /\ named.defined THEN named
            ELSE AccessLoop(doc, s, Len(s.children), rangesOfAccess(doc, s, access))

-----------------------------------------------------------------------------
(* The documents of the model                                              *)

\* sequences over S of length at most n
SeqsUpTo(S, n) == UNION {[1..k -> S] : k \in 0..n}

ClassInput(comment, template, inRange, kw, base, items, sep, trailer) ==
    [comment |-> comment, template |-> template, inRange |-> inRange, kw |-> kw,
     base |-> base, items |-> items, sep |-> sep, trailer |-> trailer]

\* Class bodies of up to MaxItems members and access specifiers, with and
\* without a base-class list.
AccessItems == {"pub", "priv", "prot", "field", "decl", "ctor", "nested"}

AccessInputs ==
    { ClassInput(FALSE, FALSE, FALSE, kw, base, items, " ", <<";">>) :
        kw \in {"class", "struct"}, base \in BOOLEAN, items \in SeqsUpTo(AccessItems, MaxItems) }

\* class C { int a; public: int a; private: int a; };
SampleInputs ==
    { ClassInput(FALSE, FALSE, FALSE, "class", FALSE,
                 <<"field", "pub", "field", "priv", "field">>, " ", <<";">>),
      ClassInput(FALSE, FALSE, FALSE, "class", TRUE,
                 <<"field", "pub", "field", "priv", "field">>, " ", <<";">>) }

\* One member at most, in every surrounding: a leading comment, a template
\* statement (inside or outside the reported range), one line or several,
\* and what follows the closing brace.
Trailers == {<<>>, <<";">>, <<" ", "x", ";">>}

LayoutInputs ==
    { ClassInput(comment, tr[1], tr[2], "class", FALSE, items, sep, trailer) :
        comment \in BOOLEAN, tr \in {<<FALSE, FALSE>>, <<TRUE, FALSE>>, <<TRUE, TRUE>>},
        items \in SeqsUpTo(ItemIds, 1), sep \in {" ", "\n"}, trailer \in Trailers }

\* namespace C { ... } and namespace a::C { ... }
NamespaceItems == {"field", "decl", "def", "lcmt"}

NamespaceInputs ==
    { ClassInput(comment, FALSE, inRange, "namespace", qualified, items, sep, <<>>) :
        comment \in BOOLEAN, inRange \in BOOLEAN, qualified \in BOOLEAN,
        items \in SeqsUpTo(NamespaceItems, 1), sep \in {" ", "\n"} }

\* What follows the closing brace holds a semicolon inside a comment, before
\* the semicolon of the statement or with no semicolon after it.
CommentTrailers ==
    { <<" ", "/*", ";", "*/", " ", "x", ";">>, <<" ", "//", ";">> }

\* class C { }, struct C { int a; }, struct C { auto a = "x"; } and
\* enum C { } before every trailer
TrailerInputs ==
    { ClassInput(FALSE, FALSE, FALSE, ki[1], FALSE, ki[2], " ", trailer) :
        ki \in {<<"class", <<>>>>, <<"struct", <<"field">>>>, <<"struct", <<"sfield">>>>,
                <<"enum", <<>>>>},
        trailer \in Trailers \cup CommentTrailers }

Inputs == AccessInputs \cup SampleInputs \cup LayoutInputs \cup NamespaceInputs \cup TrailerInputs

\* Where each lexeme of a document stands: in the code, in a line comment, a
\* block comment or a string literal, or it is one of their delimiters.
RECURSIVE WrittenIn(_, _, _)
WrittenIn(doc, i, mode) ==
    IF i > Len(doc) THEN <<>>
    ELSE LET t == doc[i] IN
         CASE mode = "code" /\ t = "//" -> <<"delimiter">> \o WrittenIn(doc, i + 1, "line")
           [] mode = "code" /\ t = "/*" -> <<"delimiter">> \o WrittenIn(doc, i + 1, "block")
           [] mode = "code" /\ t = "\"" -> <<"delimiter">> \o WrittenIn(doc, i + 1, "string")
           [] mode = "line" /\ t = "\n" -> <<"code">> \o WrittenIn(doc, i + 1, "code")
           [] mode = "block" /\ t = "*/" -> <<"delimiter">> \o WrittenIn(doc, i + 1, "code")
           [] mode = "string" /\ t = "\"" -> <<"delimiter">> \o WrittenIn(doc, i + 1, "code")
           [] OTHER -> <<mode>> \o WrittenIn(doc, i + 1, mode)

\* what a comment or a string literal can hold in place of one of its lexemes
CommentContents == {"x", ";", "{", "}", ":", "//", "/*"}

ContentsOf(mode) ==
    CASE mode = "line"   -> CommentContents \cup {"\"", "*/"}
      [] mode = "block"  -> CommentContents \cup {"\""}
      [] mode = "string" -> CommentContents
      [] OTHER           -> {}

\* The documents that differ from doc in one lexeme inside a comment or a
\* string literal.
EditedComments(doc) ==
    LET modes == WrittenIn(doc, 1, "code") IN
    UNION { { [doc EXCEPT ![i] = c] : c \in ContentsOf(modes[i]) \ {doc[i]} } : i \in 1..Len(doc) }

\* The symbols of a document that can be queried: the class-type and its members.
MembersOf(d) == {CSymbol(d.document, d.symbol.children[k]) : k \in 1..Len(d.symbol.children)}

SymbolsOf(d) == {CSymbol(d.document, d.symbol)} \cup MembersOf(d)

\* the class-type of the document
TopSymbol == CSymbol(document, ClassDoc(input).symbol)

NoResult == [op |-> "none"]

-----------------------------------------------------------------------------
(* Queries on a Refined Symbol                                             *)

Init ==
    /\ input \in Inputs
    /\ document = ClassDoc(input).document
    /\ symbol \in SymbolsOf(ClassDoc(input))
    /\ accessCache = <<>>
    /\ result = NoResult

\* get accessSpecifiers(): computed once, then returned from the cache
AccessSpecifiersGetter == IF accessCache # <<>> THEN accessCache[1] ELSE accessSpecifiers(document, symbol)

QueryAccessSpecifiers ==
    /\ result.op = "none"
    /\ accessCache' = <<AccessSpecifiersGetter>>
    /\ result' = [op |-> "accessSpecifiers", value |-> AccessSpecifiersGetter]
    /\ UNCHANGED <<input, document, symbol>>

QueryRangesOfAccess(access) ==
    /\ result.op \in {"none", "accessSpecifiers"}
    /\ accessCache' = <<AccessSpecifiersGetter>>
    /\ result' = [op |-> "rangesOfAccess", access |-> access,
                  value |-> rangesOfAccessFrom(document, symbol, access, AccessSpecifiersGetter)]
    /\ UNCHANGED <<input, document, symbol>>

\* fullRange, rangeWithComments and the declaration and body boundaries
QueryBoundaries ==
    /\ result.op = "none"
    /\ result' = [op |-> "boundaries",
                  trueStart |-> trueStart(document, symbol),
                  trueEnd |-> trueEnd(document, symbol),
                  declarationStart |-> declarationStart(document, symbol),
                  declarationEnd |-> declarationEnd(document, symbol),
                  bodyStart |-> bodyStart(document, symbol),
                  bodyEnd |-> bodyEnd(document, symbol),
                  leadingCommentStart |-> leadingCommentStart(document, symbol),
                  trailingCommentEnd |-> trailingCommentEnd(document, symbol)]
    /\ UNCHANGED <<input, document, symbol, accessCache>>

\* what the boundary and access-specifier queries return for a symbol
Boundaries(doc, s) ==
    [accessSpecifiers |-> accessSpecifiers(doc, s),
     rangesOfAccess |-> [access \in AccessLevels |-> rangesOfAccess(doc, s, access)],
     declarationEnd |-> declarationEnd(doc, s),
     bodyStart |-> bodyStart(doc, s),
     bodyEnd |-> bodyEnd(doc, s),
     trueEnd |-> trueEnd(doc, s),
     leadingCommentStart |-> leadingCommentStart(doc, s),
     trailingCommentEnd |-> trailingCommentEnd(doc, s)]

\* The same queries on the document and on a document `edited` that has the
\* same symbols in the same places, each asked of a new CSymbol.
QueryBoundariesOfBoth(edited) ==
    /\ result.op = "none"
    /\ result' = [op |-> "boundariesOfBoth", edited |-> edited,
                  first |-> Boundaries(document, symbol),
                  second |-> Boundaries(edited, symbol)]
    /\ UNCHANGED <<input, document, symbol, accessCache>>

RelativeNames == {"", "set_a", "get_a"}

\* the member variables that can be passed as the hint
MemberVariables ==
    {NoSymbol} \cup {c \in MembersOf(ClassDoc(input)) : isMemberVariable(c)}

QueryFindPosition(access, relativeName, memberVariable, caseStyle) ==
    /\ result.op = "none"
    /\ isClassType(symbol) \/ (relativeName = "" /\ memberVariable = NoSymbol /\ caseStyle = "snake_case")
    /\ accessCache' = IF isClassType(symbol) THEN <<AccessSpecifiersGetter>> ELSE accessCache
    /\ result' = [op |-> "findPosition", access |-> access, relativeName |-> relativeName,
                  memberVariable |-> memberVariable, caseStyle |-> caseStyle,
                  value |-> findPositionForNewMemberFunction(document, symbol, access,
                                relativeName, memberVariable,
                                [caseStyle |-> caseStyle, boolGetterIsPrefix |-> FALSE])]
    /\ UNCHANGED <<input, document, symbol>>

NewFunctionDeclaration ==
    /\ result.op = "none"
    /\ result' = [op |-> "newFunctionDeclaration",
                  value |-> newFunctionDeclaration(document, symbol)]
    /\ UNCHANGED <<input, document, symbol, accessCache>>

\* The view is dropped and a new CSymbol is constructed for the same symbol.
NewInstance ==
    /\ result.op # "none"
    /\ result' = NoResult
    /\ accessCache' = <<>>
    /\ UNCHANGED <<input, document, symbol>>

Next ==
    \/ QueryAccessSpecifiers
    \/ \E access \in AccessLevels : QueryRangesOfAccess(access)
    \/ QueryBoundaries
    \/ \E access \in AccessLevels, relativeName \in RelativeNames,
          memberVariable \in MemberVariables, caseStyle \in {"snake_case", "camelCase"} :
            QueryFindPosition(access, relativeName, memberVariable, caseStyle)
    \/ NewFunctionDeclaration
    \/ \E edited \in EditedComments(document) : QueryBoundariesOfBoth(edited)
    \/ NewInstance

Spec == Init /\ [][Next]_vars

-----------------------------------------------------------------------------
(* What the documents were written to mean                                 *)

\* The regions of the class body under access level `access`, from where the
\* specifiers were written: the head of the body when access is the default
\* level of the class key, and the region after each specifier of that level.
WrittenRegions(in, access) ==
    LET d == ClassDoc(in)
        sp == d.specifiers
        until(k) == IF k < Len(sp) THEN sp[k + 1].start ELSE d.bodyEnd
        isDefault == \/ (in.kw = "class" /\ access = "private")
                     \/ (in.kw = "struct" /\ access = "public")
    IN (IF isDefault THEN {Range(d.bodyStart, until(0))} ELSE {})
       \cup {Range(sp[k].end, until(k)) : k \in {j \in 1..Len(sp) : sp[j].level = access}}

SeqToSet(q) == {q[k] : k \in 1..Len(q)}

\* C1: rangesOfAccess(level) on a class-type symbol returns exactly the body
\* regions under that level, for a class or struct with or without a
\* base-class list: the head of the body up to the first access specifier
\* under the default level (private for class, public for struct), and the
\* region from the end of each `level:` specifier to the next specifier or
\* to bodyEnd.
C1_RangesAreWrittenRegions ==
    (result.op = "rangesOfAccess" /\ symbol = TopSymbol /\ isClassType(symbol))
        => SeqToSet(result.value) = WrittenRegions(input, result.access)

\* The same statement for class-types written without a base-class list.
RangesAreWrittenRegionsWithoutBase ==
    (result.op = "rangesOfAccess" /\ symbol = TopSymbol /\ isClassType(symbol) /\ ~input.base)
        => SeqToSet(result.value) = WrittenRegions(input, result.access)

\* C6: for every Refined Symbol, trueStart <= declarationStart() <= start of
\* the name range, whatever precedes the symbol (template statements, a
\* qualified namespace prefix, or neither).
C6_StartOrder ==
    result.op = "boundaries"
        => /\ result.trueStart <= result.declarationStart
           /\ result.declarationStart <= symbol.selectionRange.start

\* A templated class-type reported without its template statement: the
\* three positions are all different.
C6_Witness ==
    /\ result.op = "boundaries"
    /\ input.template
    /\ result.trueStart < result.declarationStart
    /\ result.declarationStart < symbol.selectionRange.start

\* C7: for every Refined Symbol, declarationEnd() <= bodyStart() <= bodyEnd()
\* <= trueEnd, also for symbols without a body, constructors with a
\* member-initializer list and class-types followed by an instance declaration.
C7_EndOrder ==
    result.op = "boundaries"
        => /\ result.declarationEnd <= result.bodyStart
           /\ result.bodyStart <= result.bodyEnd
           /\ result.bodyEnd <= result.trueEnd

\* The same order for every symbol but a declaration whose parameter list
\* holds braces.
EndOrderWithoutBracedDefault ==
    (result.op = "boundaries" /\ symbol.name # "g")
        => /\ result.declarationEnd <= result.bodyStart
           /\ result.bodyStart <= result.bodyEnd
           /\ result.bodyEnd <= result.trueEnd

\* the children of the symbol under query that are named name
NamedChildren(name) == {k \in 1..Len(symbol.children) : symbol.children[k].name = name}

\* the children whose end lies inside a range of rangesOfAccess(access)
ChildrenWithAccess(access) ==
    LET ranges == rangesOfAccess(document, symbol, access) IN
    {k \in 1..Len(symbol.children) :
        \E r \in 1..Len(ranges) :
            RangeContains(ranges[r], CSymbol(document, symbol.children[k]).range.end)}

Last(S) == CHOOSE k \in S : \A j \in S : j <= k

FindPositionOnClass == result.op = "findPosition" /\ isClassType(symbol)

\* C9: findPositionForNewMemberFunction(level, relativeName, memberVariable):
\* when a child named relativeName exists, the position is next to the last
\* such child, before it (at its leading-comment start) iff memberVariable is
\* given and relativeName equals memberVariable.setterName(), after it (at
\* its trailing-comment end) otherwise, whatever the access level of the child.
C9_NextToNamedChild ==
    (FindPositionOnClass /\ result.relativeName # "" /\ NamedChildren(result.relativeName) # {})
        => LET child == CSymbol(document, symbol.children[Last(NamedChildren(result.relativeName))])
               isGetter ==
                   /\ result.memberVariable # NoSymbol
                   /\ result.relativeName =
                        setterName(result.memberVariable,
                                   [caseStyle |-> result.caseStyle, boolGetterIsPrefix |-> FALSE])
               p == result.value
           IN /\ p.defined
              /\ p.nextTo
              /\ p.relativeTo = <<child.range>>
              /\ isGetter => (p.before /\ ~p.after /\ p.value = leadingCommentStart(document, child))
              /\ ~isGetter => (p.after /\ ~p.before /\ p.value = trailingCommentEnd(document, child))

\* A getter is placed before the setter although the setter does not lie in
\* a region of the requested access level.
C9_Witness ==
    /\ FindPositionOnClass
    /\ result.relativeName = "set_a"
    /\ result.value.defined /\ result.value.before /\ result.value.nextTo
    /\ result.memberVariable # NoSymbol
    /\ Last(NamedChildren("set_a")) \notin ChildrenWithAccess(result.access)

NoNamedMatch == result.relativeName = "" \/ NamedChildren(result.relativeName) = {}

AfterChild(p, k) ==
    LET child == CSymbol(document, symbol.children[k]) IN
    /\ p.defined /\ p.after /\ ~p.before /\ ~p.nextTo
    /\ p.relativeTo = <<child.range>>
    /\ p.value = trailingCommentEnd(document, child)

\* C10 as claimed: with no named match the position is just after the last
\* child whose end lies inside a rangesOfAccess(level) range; when no child
\* lies in such a range it is the end of the class body, or the body start
\* when the class has no children.
C10_FallbackIsBodyEnd ==
    (FindPositionOnClass /\ NoNamedMatch)
        => LET p == result.value
               inside == ChildrenWithAccess(result.access)
           IN IF inside # {} THEN AfterChild(p, Last(inside))
              ELSE IF Len(symbol.children) > 0
              THEN p.defined /\ p.value = bodyEnd(document, symbol)
              ELSE p.defined /\ p.value = bodyStart(document, symbol)

\* C10 as amended: when no child lies in a range of the level, the position
\* is just after the last child of the class (its trailing-comment end),
\* whatever its access level; the body start when the class has no children.
C10_FallbackIsAfterLastChild ==
    (FindPositionOnClass /\ NoNamedMatch)
        => LET p == result.value
               inside == ChildrenWithAccess(result.access)
           IN IF inside # {} THEN AfterChild(p, Last(inside))
              ELSE IF Len(symbol.children) > 0
              THEN AfterChild(p, Len(symbol.children))
              ELSE /\ p.defined /\ p.value = bodyStart(document, symbol)
                   /\ p.after /\ p.nextTo /\ p.indent /\ p.relativeTo = <<>>

\* No child of the class lies in a region of the requested level, and the
\* last child is followed by more text of the body (an access specifier).
C10_Witness ==
    /\ FindPositionOnClass /\ NoNamedMatch
    /\ symbol = TopSymbol
    /\ Len(symbol.children) > 0
    /\ ChildrenWithAccess(result.access) = {}
    /\ Len(ClassDoc(input).specifiers) > 0
    /\ ClassDoc(input).specifiers[Len(ClassDoc(input).specifiers)].start
           > symbol.children[Len(symbol.children)].range.end
    /\ result.value.value < bodyEnd(document, symbol)

-----------------------------------------------------------------------------
(* Accessor names of a member variable                                     *)

\* The types a member is declared with; boolOutside tells whether the word
\* bool was written outside angle brackets and parentheses.
MemberTypes ==
    { [toks |-> <<"bool">>, boolOutside |-> TRUE],
      [toks |-> <<"const", " ", "bool">>, boolOutside |-> TRUE],
      [toks |-> <<"int">>, boolOutside |-> FALSE],
      [toks |-> <<"boolean">>, boolOutside |-> FALSE],
      [toks |-> <<"std", ":", ":", "vector", "<", "bool", ">">>, boolOutside |-> FALSE],
      [toks |-> <<"decltype", "(", "bool", "(", ")", ")">>, boolOutside |-> FALSE] }

MemberNames == {Join(cs) : cs \in AllNames}

\* A member of class C: `type name;`, or the method `int a();`.
MemberInputs ==
    [kind : {"field"}, type : MemberTypes, name : MemberNames]
        \cup {[kind |-> "method", type |-> [toks |-> <<"int">>, boolOutside |-> FALSE], name |-> "a"]}

MemberDoc(in) ==
    in.type.toks \o <<" ", in.name>>
        \o (IF in.kind = "method" THEN <<"(", ")">> ELSE <<>>) \o <<";">>

MemberSym(in) ==
    LET n == Len(in.type.toks) + 1 IN
    Sym(in.kind, in.name, Range(0, Len(MemberDoc(in)) - 1), Range(n, n + 1), <<>>, ClassName)

InitNames ==
    /\ input \in MemberInputs
    /\ document = MemberDoc(input)
    /\ symbol = CSymbol(document, MemberSym(input))
    /\ accessCache = <<>>
    /\ result = NoResult

GetterName(config) ==
    /\ result.op = "none"
    /\ result' = [op |-> "getterName", config |-> config,
                  value |-> getterName(document, symbol, config)]
    /\ UNCHANGED <<input, document, symbol, accessCache>>

SetterName(config) ==
    /\ result.op = "none"
    /\ result' = [op |-> "setterName", config |-> config, value |-> setterName(symbol, config)]
    /\ UNCHANGED <<input, document, symbol, accessCache>>

NextNames ==
    \/ \E config \in Configs : GetterName(config)
    \/ \E config \in Configs : SetterName(config)
    \/ NewInstance

SpecNames == InitNames /\ [][NextNames]_vars

\* the base name of the member in the configured case style
FormattedBaseName == formatToCaseStyle(baseName(CharsOf(symbol.name)), result.config.caseStyle)

Prefixed(prefix) == Join(formatToCaseStyle(prefix \o FormattedBaseName, result.config.caseStyle))

GetterOfField == result.op = "getterName" /\ isMemberVariable(symbol)

\* C4 as claimed: the getter of a non-boolean member variable is the
\* get_-prefixed base name in the configured case style (m_count gives
\* get_count).
C4_GetterIsGetPrefixed ==
    (GetterOfField /\ ~input.type.boolOutside) => result.value = Prefixed(<<"g", "e", "t", "_">>)

\* C4 as amended: the getter of a non-boolean member variable is the
\* formatted base name itself when that differs from the name of the member
\* (m_count gives count), and the get_-prefixed formatted base name only when
\* it does not differ (count gives get_count).
C4_GetterIsBaseNameOrGetPrefixed ==
    (GetterOfField /\ ~input.type.boolOutside)
        => /\ Join(FormattedBaseName) # symbol.name => result.value = Join(FormattedBaseName)
           /\ Join(FormattedBaseName) = symbol.name => result.value = Prefixed(<<"g", "e", "t", "_">>)
           /\ (symbol.name = "m_count" /\ result.config.caseStyle = "snake_case")
                  => result.value = "count"
           /\ (symbol.name = "count" /\ result.config.caseStyle = "snake_case")
                  => result.value = "get_count"
           /\ (symbol.name = "count" /\ result.config.caseStyle = "camelCase")
                  => result.value = "getCount"

\* The getter of `int m_count;` was asked for under snake_case.
C4_Witness ==
    /\ GetterOfField
    /\ input.type.toks = <<"int">>
    /\ symbol.name = "m_count"
    /\ result.config.caseStyle = "snake_case"
    /\ result.value = "count"

\* is_, Is_ or is followed by a capital
StartsAsListed(cs) ==
    /\ Len(cs) >= 3
    /\ \/ cs[1] \in {"i", "I"} /\ cs[2] = "s" /\ cs[3] = "_"
       \/ cs[1] = "i" /\ cs[2] = "s" /\ IsUpper(cs[3])

\* is_, Is_, or is or Is followed by a capital
StartsAsPredicate(cs) ==
    /\ Len(cs) >= 3
    /\ cs[1] \in {"i", "I"} /\ cs[2] = "s"
    /\ cs[3] = "_" \/ IsUpper(cs[3])

\* C5 as claimed: the getter is is_ + formatted base name, in the
\* configured case style, exactly when the option is on, bool is written in
\* the leading type text outside angle brackets and parentheses, and the
\* formatted base name does not start with is_, Is_ or is + capital.
C5_IsPrefixUnlessListed ==
    GetterOfField
        => (result.value = Prefixed(<<"i", "s", "_">>)
              <=> /\ result.config.boolGetterIsPrefix
                  /\ input.type.boolOutside
                  /\ ~StartsAsListed(FormattedBaseName))

\* C5 as amended: the same, where the formatted base names left without a
\* prefix are those that start with is_, Is_, is + capital or Is + capital
\* (under PascalCase every such name starts with Is + capital).
C5_IsPrefixUnlessPredicate ==
    GetterOfField
        => (result.value = Prefixed(<<"i", "s", "_">>)
              <=> /\ result.config.boolGetterIsPrefix
                  /\ input.type.boolOutside
                  /\ ~StartsAsPredicate(FormattedBaseName))

\* The getter of `bool m_count;` was asked for with the option on.
C5_Witness ==
    /\ GetterOfField
    /\ input.type.toks = <<"bool">>
    /\ symbol.name = "m_count"
    /\ result.config = [caseStyle |-> "snake_case", boolGetterIsPrefix |-> TRUE]
    /\ result.value = "is_count"

-----------------------------------------------------------------------------
(* Scope Resolver: CSymbol.scopeString                                     *)

MaxScopes == 2

LanguageServers == {"cpptools", "clangd", "ccls", "unknown"}

\* isAnonymous(): the name the active language server gives an unnamed scope
isAnonymous(s, languageServer) ==
    CASE languageServer = "cpptools" ->
            s.name \in {"`anonymous-namespace'", "__unnamed_struct_1"}
      [] languageServer = "clangd" ->
            s.name \in {"(anonymous namespace)", "(anonymous struct)"}
      [] languageServer = "ccls" -> s.name \in {"(anon struct)"}
      [] languageServer = "unknown" -> FALSE

\* A scope as written in a document: the keyword, the name, and the names of
\* its template parameters (<<>> when it is not a template).
ScopeDecl(kind, name, params) == [kind |-> kind, name |-> name, params |-> params]

\* the text of the header of a scope block
ScopeHeader(d) ==
    (IF d.params = <<>> THEN <<>>
     ELSE <<"template", "<", "typename", " ">> \o d.params \o <<">", " ">>)
    \o <<d.kind, " ">>
    \o (IF d.name = "(anonymous namespace)" THEN <<>> ELSE <<d.name, " ">>)

\* templateParameters() of an unspecialized template: '<' + names + '>'
templateParameters(d) == IF d.params = <<>> THEN <<>> ELSE <<"<">> \o d.params \o <<">">>

\* The symbol of a scope block: a SourceSymbol with the text of its name
\* range and its template parameters.
ScopeSym(d, range) ==
    [kind |-> d.kind, name |-> d.name, range |-> range,
     nameText |-> <<d.name>>, templateParameters |-> templateParameters(d)]

\* A document of nested scope blocks, outermost first, starting at offset
\* `at`: its text and the symbols the language server reports for it.
RECURSIVE ScopeBlocks(_, _, _)
ScopeBlocks(decls, k, at) ==
    IF k > Len(decls) THEN [toks |-> <<"\n">>, syms |-> <<>>]
    ELSE LET head  == <<"\n">> \o ScopeHeader(decls[k]) \o <<"{">>
             inner == ScopeBlocks(decls, k + 1, at + Len(head))
             toks  == head \o inner.toks \o <<"}", "\n">>
         IN [toks |-> toks,
             syms |-> <<ScopeSym(decls[k], Range(at + 1, at + Len(toks) - 1))>> \o inner.syms]

\* SourceSymbol.matches(other): the same name, a compatible kind, and the
\* same chain of enclosing scopes by name.
Matches(a, b) == a.name = b.name /\ (isNamespace(a) <=> isNamespace(b))

\* SourceDocument.findMatchingSymbol(scope), for the i-th scope of a chain
\* and a target document holding the nested blocks `target`
findMatchingSymbol(target, scopes, i) ==
    IF i <= Len(target) /\ \A k \in 1..i : Matches(target[k], scopes[k])
    THEN target[i]
    ELSE NoSymbol

\* util.containsExclusive(range, position)
containsExclusive(range, position) == range.start < position /\ position < range.end

\* the body of the for loop for scopes[i]: omits the scope whenever the
\* target document has a matching scope, wherever the position is
ScopeQualifierWhenUnmatched(scopes, i, target, position, languageServer) ==
    IF findMatchingSymbol(target, scopes, i) # NoSymbol \/ isAnonymous(scopes[i], languageServer)
    THEN <<>>
    ELSE IF isNamespace(scopes[i]) THEN <<scopes[i].name, ":", ":">>
    ELSE scopes[i].nameText \o scopes[i].templateParameters \o <<":", ":">>

\* the body of the for loop of scopeString for scopes[i]: what is appended
ScopeQualifier(scopes, i, target, position, languageServer) ==
    LET found == findMatchingSymbol(target, scopes, i) IN
    IF found = NoSymbol \/ ~containsExclusive(found.range, position)
    THEN LET targetScope == IF found = NoSymbol THEN scopes[i] ELSE found IN
         IF isAnonymous(targetScope, languageServer) THEN <<>>
         ELSE IF isNamespace(targetScope) THEN <<targetScope.name, ":", ":">>
         ELSE targetScope.nameText \o targetScope.templateParameters \o <<":", ":">>
    ELSE <<>>

\* the loop of scopeString leaving the loop at the first anonymous scope
RECURSIVE ScopeLoopBreakAtAnonymous(_, _, _, _, _, _)
ScopeLoopBreakAtAnonymous(scopes, i, target, position, namespacesOnly, languageServer) ==
    IF i > Len(scopes) THEN <<>>
    ELSE IF namespacesOnly /\ isClassType(scopes[i]) THEN <<>>
    ELSE IF isAnonymous(scopes[i], languageServer) THEN <<>>
    ELSE ScopeQualifier(scopes, i, target, position, languageServer)
         \o ScopeLoopBreakAtAnonymous(scopes, i + 1, target, position, namespacesOnly, languageServer)

\* the loop of scopeString walking the whole chain whatever namespacesOnly is
RECURSIVE ScopeLoopWholeChain(_, _, _, _, _, _)
ScopeLoopWholeChain(scopes, i, target, position, namespacesOnly, languageServer) ==
    IF i > Len(scopes) THEN <<>>
    ELSE ScopeQualifier(scopes, i, target, position, languageServer)
         \o ScopeLoopWholeChain(scopes, i + 1, target, position, namespacesOnly, languageServer)

RECURSIVE ScopeLoop(_, _, _, _, _, _)
ScopeLoop(scopes, i, target, position, namespacesOnly, languageServer) ==
    IF i > Len(scopes) THEN <<>>
    ELSE IF namespacesOnly /\ isClassType(scopes[i]) THEN <<>>
    ELSE ScopeQualifier(scopes, i, target, position, languageServer)
         \o ScopeLoop(scopes, i + 1, target, position, namespacesOnly, languageServer)

\* scopeString(target, position, namespacesOnly) of the symbol s whose
\* enclosing scopes are s.scopes, outermost first
scopeString(s, target, position, namespacesOnly, languageServer) ==
    LET scopes == IF isClassType(s) \/ isNamespace(s) THEN s.scopes \o <<s.self>> ELSE s.scopes
    IN ScopeLoop(scopes, 1, target, position, namespacesOnly, languageServer)

\* the scopes written in the source document and in the target document
SourceDecls ==
    { ScopeDecl("namespace", "N", <<>>),
      ScopeDecl("namespace", "(anonymous namespace)", <<>>),
      ScopeDecl("class", "C", <<"T">>) }

TargetDecls ==
    { ScopeDecl("namespace", "N", <<>>),
      ScopeDecl("namespace", "C", <<>>),
      ScopeDecl("class", "C", <<"T">>) }

\* The symbol is a method f or a class C<T> declared inside the blocks
\* `source`; the target document holds the blocks `target`.
ScopeInputs ==
    [source : SeqsUpTo(SourceDecls, MaxScopes), self : {"method", "class"},
     target : SeqsUpTo(TargetDecls, MaxScopes), languageServer : {"clangd", "unknown"}]

ScopedSymbol(in) ==
    LET blocks == ScopeBlocks(in.source, 1, 0) IN
    [kind |-> in.self, name |-> IF in.self = "class" THEN "C" ELSE "f",
     scopes |-> blocks.syms,
     self |-> ScopeSym(ScopeDecl("class", "C", <<"T">>), Range(0, 0))]

InitScope ==
    /\ input \in ScopeInputs
    /\ document = ScopeBlocks(input.target, 1, 0).toks
    /\ symbol = ScopedSymbol(input)
    /\ accessCache = <<>>
    /\ result = NoResult

\* the symbols of the target document
TargetSymbols == ScopeBlocks(input.target, 1, 0).syms

ScopeString(position, namespacesOnly) ==
    /\ result.op = "none"
    /\ result' = [op |-> "scopeString", position |-> position, namespacesOnly |-> namespacesOnly,
                  value |-> scopeString(symbol, TargetSymbols, position, namespacesOnly,
                                        input.languageServer)]
    /\ UNCHANGED <<input, document, symbol, accessCache>>

NextScope ==
    \/ \E position \in 0..Len(document), namespacesOnly \in BOOLEAN :
          ScopeString(position, namespacesOnly)
    \/ NewInstance

SpecScope == InitScope /\ [][NextScope]_vars

\* the chain the qualifier is built from: the enclosing scopes, and the
\* symbol itself when it is a class
ChainOfSymbol == IF symbol.kind = "class" THEN symbol.scopes \o <<symbol.self>> ELSE symbol.scopes

\* the scope of the target document that corresponds to the i-th scope of
\* the chain: the i-th nested block, when the blocks down to it carry the
\* names and kinds of the chain
Counterpart(i) ==
    IF /\ i <= Len(TargetSymbols)
       /\ \A k \in 1..i : /\ TargetSymbols[k].name = ChainOfSymbol[k].name
                          /\ (TargetSymbols[k].kind = "namespace") = (ChainOfSymbol[k].kind = "namespace")
    THEN <<TargetSymbols[i]>>
    ELSE <<>>

\* the target document has a matching scope that strictly contains the position
InsideCounterpart(i) ==
    /\ Counterpart(i) # <<>>
    /\ Counterpart(i)[1].range.start < result.position
    /\ result.position < Counterpart(i)[1].range.end

\* Name:: with the template parameter list of the scope that is named
QualifierOf(i) ==
    LET named == IF Counterpart(i) # <<>> THEN Counterpart(i)[1] ELSE ChainOfSymbol[i] IN
    <<named.name>> \o named.templateParameters \o <<":", ":">>

RECURSIVE QualifiersFrom(_)
QualifiersFrom(i) ==
    IF i > Len(ChainOfSymbol) THEN <<>>
    ELSE (IF InsideCounterpart(i) \/ isAnonymous(ChainOfSymbol[i], input.languageServer)
          THEN <<>> ELSE QualifierOf(i))
         \o QualifiersFrom(i + 1)

\* C2: scopeString(target, position) is the concatenation, from the
\* outermost scope of the chain to the innermost, of Name:: for every scope
\* that is not anonymous and for which the target document has no matching
\* scope strictly containing the position (a scope without any matching
\* scope included); the scopes that have one contribute nothing.
C2_ScopeStringOmitsEnclosed ==
    (result.op = "scopeString" /\ ~result.namespacesOnly) => result.value = QualifiersFrom(1)

\* The position lies inside the re-opened N of the target document, which
\* has no C: N:: is omitted and C<T>:: is emitted.
C2_Witness ==
    /\ result.op = "scopeString" /\ ~result.namespacesOnly
    /\ symbol.kind = "method"
    /\ Len(ChainOfSymbol) = 2
    /\ InsideCounterpart(1)
    /\ Counterpart(2) = <<>>
    /\ result.value = <<"C", "<", "T", ">", ":", ":">>

\* the scopes of a chain that the language server does not report as anonymous
WithoutAnonymous(scopes) ==
    SelectSeq(scopes, LAMBDA scope : ~isAnonymous(scope, input.languageServer))

\* C11 as stated: the result is the result for the same chain with the
\* anonymous scopes removed.
C11_AnonymousScopesAreTransparent ==
    result.op = "scopeString" =>
        result.value = scopeString([symbol EXCEPT !.scopes = WithoutAnonymous(symbol.scopes)],
                                   TargetSymbols, result.position, result.namespacesOnly,
                                   input.languageServer)

\* what the scopes of the chain from the i-th on contribute, each looked up
\* in the target document by its place in the whole chain, and the
\* anonymous ones nothing
RECURSIVE NamedQualifiersFrom(_)
NamedQualifiersFrom(i) ==
    IF i > Len(ChainOfSymbol) THEN <<>>
    ELSE IF result.namespacesOnly /\ isClassType(ChainOfSymbol[i]) THEN <<>>
    ELSE (IF isAnonymous(ChainOfSymbol[i], input.languageServer) THEN <<>>
          ELSE ScopeQualifier(ChainOfSymbol, i, TargetSymbols, result.position,
                              input.languageServer))
         \o NamedQualifiersFrom(i + 1)

\* C11 (amended): an anonymous scope contributes no qualifier and the walk
\* goes on with the scopes nested inside it: the result is the
\* concatenation of what the other scopes contribute, each of them looked
\* up in the target document by its whole chain, anonymous scopes included.
C11_AnonymousScopesAreSkipped ==
    result.op = "scopeString" => result.value = NamedQualifiersFrom(1)

\* A method of class C<T> in an anonymous namespace, not restricted to
\* namespaces: the qualifier of C is emitted after the anonymous scope.
C11_Witness ==
    /\ result.op = "scopeString" /\ ~result.namespacesOnly
    /\ Len(ChainOfSymbol) = 2
    /\ isAnonymous(ChainOfSymbol[1], input.languageServer)
    /\ ~isAnonymous(ChainOfSymbol[2], input.languageServer)
    /\ result.value = <<"C", "<", "T", ">", ":", ":">>

\* the scopes of the chain that precede its first class-type scope
RECURSIVE BeforeFirstClassType(_, _)
BeforeFirstClassType(scopes, i) ==
    IF i > Len(scopes) \/ isClassType(scopes[i]) THEN <<>>
    ELSE <<scopes[i]>> \o BeforeFirstClassType(scopes, i + 1)

\* C12: scopeString with namespacesOnly set is the unrestricted result for
\* the scopes that precede the first class-type scope of the chain: that
\* scope and the scopes nested inside it contribute nothing.
C12_NamespacesOnlyStopsAtClassType ==
    (result.op = "scopeString" /\ result.namespacesOnly) =>
        result.value =
            scopeString([symbol EXCEPT !.kind = "method",
                                       !.scopes = BeforeFirstClassType(ChainOfSymbol, 1)],
                        TargetSymbols, result.position, FALSE, input.languageServer)

\* A method of class C<T> in namespace N, asked with namespacesOnly at a
\* position outside N: only N:: is emitted.
C12_Witness ==
    /\ result.op = "scopeString" /\ result.namespacesOnly
    /\ Len(ChainOfSymbol) = 2
    /\ isNamespace(ChainOfSymbol[1]) /\ isClassType(ChainOfSymbol[2])
    /\ result.value = <<"N", ":", ":">>

-----------------------------------------------------------------------------
(* Primitive types and alias resolution: CSymbol.isPrimitive               *)

PrimitiveTypes == {"void", "bool", "char", "int", "short", "long", "signed", "unsigned",
                   "float", "double"}

\* parse.matchesPrimitiveType: the text names a type of the vocabulary and
\* is neither a template instance nor a qualified name.
matchesPrimitiveType(txt) ==
    /\ \E i \in 1..Len(txt) : txt[i] \in PrimitiveTypes
    /\ ~ContainsWord(txt, "<")
    /\ ~\E i \in 1..(Len(txt) - 1) : txt[i] = ":" /\ txt[i + 1] = ":"

\* text.replace(/\b(w1|w2|...)\b/g, parse.masker)
MaskWords(txt, words) == [i \in 1..Len(txt) |-> IF txt[i] \in words THEN " " ELSE txt[i]]

\* txt.search(re_scopeResolvedIdentifier): /[\w_][\w\d_]*\b(?!\s*::)/
SearchScopeResolvedIdentifier(txt) ==
    FirstHit(Len(txt), LAMBDA p :
        /\ IsWord(txt[p])
        /\ LET j == SkipWhite(txt, p + 1) IN
           ~(j + 1 <= Len(txt) /\ txt[j] = ":" /\ txt[j + 1] = ":"))

isVariable(s) == s.kind \in {"variable", "field"}

\* SourceSymbol.mightBeTypedefOrTypeAlias(): the kinds language servers
\* report typedefs and type aliases with
mightBeTypedefOrTypeAlias(s) == s.kind \in {"typedef", "interface", "typeParameter"}

isTypedef(doc, s) == mightBeTypedefOrTypeAlias(s) /\ ContainsWord(parsableText(doc, s), "typedef")

isTypeAlias(doc, s) ==
    /\ mightBeTypedefOrTypeAlias(s)
    /\ ContainsWord(parsableText(doc, s), "using")
    /\ ContainsWord(parsableText(doc, s), "=")

\* /\b(struct|class|(<(>(?=>)|[^>])*>))\b/.test(txt)
NamesClassOrTemplate(txt) ==
    ContainsWord(txt, "struct") \/ ContainsWord(txt, "class") \/ ContainsWord(txt, "<")

\* A workspace of one file: two type names A and B, each a typedef or an
\* alias of `of`; an enum E; a class S; and the variable v of type `type`.
\*   typedef <of> A;  |  using A = <of>;
TypeNames == {"int", "A", "B", "E", "S", "U"}

AliasForms == [form : {"typedef", "using"}, of : TypeNames]

WorkspaceInputs ==
    { [A |-> a, B |-> b, const |-> c, type |-> t] :
        a \in {f \in AliasForms : f.of \in {"int", "B", "E", "S"}},
        b \in {f \in AliasForms : f.form = "typedef" /\ f.of \in {"A", "S", "U"}},
        c \in BOOLEAN, t \in {"int", "A", "S"} }

AliasToks(name, f) ==
    IF f.form = "typedef" THEN <<"typedef", " ", f.of, " ", name>>
    ELSE <<"using", " ", name, " ", "=", " ", f.of>>

\* the statements of the file, each with the symbol kind reported for it
\* and the index of its name
Statements(in) ==
    << [toks |-> AliasToks("A", in.A), kind |-> "typedef", name |-> "A",
        at |-> IF in.A.form = "typedef" THEN 4 ELSE 2],
       [toks |-> AliasToks("B", in.B), kind |-> "typedef", name |-> "B",
        at |-> IF in.B.form = "typedef" THEN 4 ELSE 2],
       [toks |-> <<"enum", " ", "E", " ", "{", "}">>, kind |-> "enum", name |-> "E", at |-> 2],
       [toks |-> <<"class", " ", "S", " ", "{", "}">>, kind |-> "class", name |-> "S", at |-> 2],
       [toks |-> (IF in.const THEN <<"const", " ">> ELSE <<>>) \o <<in.type, " ", "v">>,
        kind |-> "variable", name |-> "v", at |-> IF in.const THEN 4 ELSE 2] >>

RECURSIVE WorkspaceFrom(_, _, _, _)
WorkspaceFrom(sts, k, toks, syms) ==
    IF k > Len(sts) THEN [document |-> toks, symbols |-> syms]
    ELSE LET st == sts[k]
             start == Len(toks)
             sym == Sym(st.kind, st.name, Range(start, start + Len(st.toks)),
                        Range(start + st.at, start + st.at + 1), <<>>, "")
         IN WorkspaceFrom(sts, k + 1, toks \o st.toks \o <<";", "\n">>, syms \o <<sym>>)

Workspace(in) == WorkspaceFrom(Statements(in), 1, <<>>, <<>>)

\* document.findDefinitions(position) followed by typeFile.getSymbol: the
\* symbol of the file that declares the identifier written at `offset`,
\* <<>> if none
findDefinitions(doc, symbols, offset) ==
    LET hits == {k \in 1..Len(symbols) : symbols[k].name = doc[offset + 1]}
    IN IF hits = {} THEN <<>> ELSE <<symbols[CHOOSE k \in hits : TRUE]>>

\* One activation of isPrimitive(resolveTypes) on s: done with a value, or
\* the activation for the resolved type symbol that it returns the value of.
Returns(value) == [done |-> TRUE, value |-> value]

resolveThisType(doc, symbols, offset) ==
    LET locations == findDefinitions(doc, symbols, offset) IN
    IF locations = <<>> THEN Returns(FALSE)
    ELSE IF isEnum(locations[1]) THEN Returns(TRUE)
    ELSE IF mightBeTypedefOrTypeAlias(locations[1])
    THEN [done |-> FALSE, typeCSymbol |-> CSymbol(doc, locations[1])]
    ELSE Returns(FALSE)

isPrimitive(doc, symbols, s, resolveTypes) ==
    IF isVariable(s)
    THEN LET leadingText == parsableLeadingText(doc, s)
             type == MaskWords(leadingText, {"static", "const", "constexpr", "inline", "mutable"})
             index == SearchScopeResolvedIdentifier(type)
         IN IF matchesPrimitiveType(leadingText) THEN Returns(TRUE)
            ELSE IF ~resolveTypes THEN Returns(FALSE)
            ELSE IF index # -1 THEN resolveThisType(doc, symbols, startOffset(s) + index)
            ELSE Returns(FALSE)
    ELSE IF isTypedef(doc, s)
    THEN LET maskedText == MaskWords(parsableText(doc, s), {"typedef", "const"})
             index == SearchScopeResolvedIdentifier(maskedText)
         IN IF matchesPrimitiveType(parsableText(doc, s)) THEN Returns(TRUE)
            ELSE IF NamesClassOrTemplate(parsableText(doc, s)) THEN Returns(FALSE)
            ELSE IF ~resolveTypes THEN Returns(FALSE)
            ELSE IF index # -1 THEN resolveThisType(doc, symbols, startOffset(s) + index)
            ELSE Returns(FALSE)
    ELSE IF isTypeAlias(doc, s)
    THEN LET indexOfEquals == IndexOf(parsableText(doc, s), "=")
             type == SubstringFrom(parsableText(doc, s), indexOfEquals + 1)
             index == SearchScopeResolvedIdentifier(type)
         IN IF matchesPrimitiveType(parsableText(doc, s)) THEN Returns(TRUE)
            ELSE IF NamesClassOrTemplate(parsableText(doc, s)) THEN Returns(FALSE)
            ELSE IF ~resolveTypes THEN Returns(FALSE)
            ELSE IF indexOfEquals = -1 THEN Returns(FALSE)
            ELSE IF index # -1 THEN resolveThisType(doc, symbols, startOffset(s) + index)
            ELSE Returns(FALSE)
    ELSE Returns(FALSE)

\* what each activation isPrimitive(resolveTypes) on a symbol of the file
\* does, by the index of the symbol and the flag
Activations(doc, symbols) ==
    [c \in {1, 2, 5} \X BOOLEAN |-> isPrimitive(doc, symbols, CSymbol(doc, symbols[c[1]]), c[2])]

\* the index of s among the symbols of the file
IndexOfSymbol(symbols, s) == CHOOSE k \in 1..Len(symbols) : symbols[k].name = s.name

\* input.symbols: the symbols the language server reports for the file
InitPrimitive ==
    /\ \E in \in WorkspaceInputs :
          /\ input = [A |-> in.A, B |-> in.B, symbols |-> Workspace(in).symbols,
                      activations |-> Activations(Workspace(in).document, Workspace(in).symbols)]
          /\ document = Workspace(in).document
    /\ symbol = CSymbol(document, input.symbols[5])
    /\ accessCache = <<>>
    /\ result = NoResult

\* isPrimitive(resolveTypes) is called on a symbol of the file
CallIsPrimitive(k, resolveTypes) ==
    /\ result.op = "none"
    /\ symbol' = CSymbol(document, input.symbols[k])
    /\ result' = [op |-> "isPrimitive", done |-> FALSE, resolveTypes |-> resolveTypes]
    /\ UNCHANGED <<input, document, accessCache>>

\* The pending activation runs: it settles the promise, or awaits
\* isPrimitive(true) of the resolved type symbol.
RunIsPrimitive ==
    /\ result.op = "isPrimitive" /\ ~result.done
    /\ LET r == input.activations[<<IndexOfSymbol(input.symbols, symbol), result.resolveTypes>>] IN
       IF r.done
       THEN /\ result' = [op |-> "isPrimitive", done |-> TRUE, value |-> r.value]
            /\ UNCHANGED symbol
       ELSE /\ result' = [op |-> "isPrimitive", done |-> FALSE, resolveTypes |-> TRUE]
            /\ symbol' = r.typeCSymbol
    /\ UNCHANGED <<input, document, accessCache>>

\* The caller receives the value of the settled promise.
AwaitIsPrimitive ==
    /\ result.op = "isPrimitive" /\ result.done
    /\ result' = NoResult
    /\ UNCHANGED <<input, document, symbol, accessCache>>

NextPrimitive ==
    \/ \E k \in {1, 2, 5}, resolveTypes \in BOOLEAN : CallIsPrimitive(k, resolveTypes)
    \/ RunIsPrimitive
    \/ AwaitIsPrimitive

\* A pending activation is always run in the end.
SpecPrimitive == InitPrimitive /\ [][NextPrimitive]_vars /\ WF_vars(RunIsPrimitive)

\* C8: every call of isPrimitive ends: a pending call is settled in the
\* end, also when the aliases of the file refer to each other.
C8_IsPrimitiveTerminates ==
    (result.op = "isPrimitive" /\ ~result.done) ~> (result.op = "isPrimitive" /\ result.done)

\* the types A and B of the file do not lead back to themselves
AliasChainEnds == ~(input.A.of = "B" /\ input.B.of = "A")

\* The calls end in the files whose alias chains end.
IsPrimitiveTerminatesWithoutCycle ==
    (AliasChainEnds /\ result.op = "isPrimitive" /\ ~result.done)
        ~> (result.op = "isPrimitive" /\ result.done)

-----------------------------------------------------------------------------
(* Declaration/Definition Synthesizer: CSymbol.formatDeclaration           *)

parsableTemplateSnippet(doc, s) ==
    maskNonSourceText(GetText(doc, Range(trueStart(doc, s), s.range.start)))

parsableFullText(doc, s) == parsableTemplateSnippet(doc, s) \o parsableText(doc, s)

isTemplate(doc, s) == startsWith(parsableFullText(doc, s), "template")

isInline(doc, s) == ContainsWord(parsableLeadingText(doc, s), "inline")

isConstexpr(doc, s) == ContainsWord(parsableLeadingText(doc, s), "constexpr")

isConsteval(doc, s) == ContainsWord(parsableLeadingText(doc, s), "consteval")

\* parse.removeComments: the text without its comments
RECURSIVE RemoveCommentsFrom(_, _, _)
RemoveCommentsFrom(txt, masked, i) ==
    IF i > Len(txt) THEN <<>>
    ELSE (IF txt[i] = masked[i] THEN <<txt[i]>> ELSE <<>>) \o RemoveCommentsFrom(txt, masked, i + 1)

removeComments(txt) == RemoveCommentsFrom(txt, maskComments(txt, FALSE), 1)

\* lineAt(range.start): the blanks the line of the symbol starts with
Indentation(doc, s) ==
    LET line == LineText(doc, LineOf(doc, s.range.start)) IN
    SkipWhite(line, 1) - 1

\* txt.replace(parse.getIndentationRegExp(symbol), ''): the indentation of
\* the symbol's line is removed at the start of each line of txt.
RECURSIVE StripIndentation(_, _, _, _)
StripIndentation(txt, i, n, atLineStart) ==
    IF i > Len(txt) THEN <<>>
    ELSE IF /\ atLineStart /\ n > 0 /\ i + n - 1 <= Len(txt)
            /\ \A k \in i..(i + n - 1) : txt[k] = " "
    THEN StripIndentation(txt, i + n, n, FALSE)
    ELSE <<txt[i]>> \o StripIndentation(txt, i + 1, n, txt[i] = "\n")

\* replace(/\s*=[^,>]+(?=[,>])/g, '')
RECURSIVE RemoveDefaultArgs(_, _, _)
RemoveDefaultArgs(txt, i, skipping) ==
    IF i > Len(txt) THEN <<>>
    ELSE IF skipping
    THEN IF txt[i] \in {",", ">"} THEN <<txt[i]>> \o RemoveDefaultArgs(txt, i + 1, FALSE)
         ELSE RemoveDefaultArgs(txt, i + 1, TRUE)
    ELSE LET j == SkipWhite(txt, i) IN
         IF /\ j < Len(txt) /\ txt[j] = "=" /\ txt[j + 1] \notin {",", ">"}
            /\ \E k \in (j + 2)..Len(txt) : txt[k] \in {",", ">"}
         THEN RemoveDefaultArgs(txt, j + 1, TRUE)
         ELSE <<txt[i]>> \o RemoveDefaultArgs(txt, i + 1, FALSE)

\* the loop of templateStatements over matchAll(/\btemplate(\s*<\s*>)?/g)
RECURSIVE TemplateStatementsFrom(_, _, _, _)
TemplateStatementsFrom(full, masked, i, removeDefaultArgs) ==
    IF i > Len(masked) THEN <<>>
    ELSE IF masked[i] # "template"
    THEN TemplateStatementsFrom(full, masked, i + 1, removeDefaultArgs)
    ELSE LET j == SkipWhite(masked, i + 1)
             k == SkipWhite(masked, j + 1)
             closed == j <= Len(masked) /\ masked[j] = "<" /\ k <= Len(masked) /\ masked[k] = ">"
             templateStatement == IF closed THEN SubSeq(full, i, k) ELSE <<full[i]>>
             next == IF closed THEN k + 1 ELSE i + 1
         IN <<(IF ~endsWith(templateStatement, ">") THEN templateStatement \o <<"<", ">">>
               ELSE IF removeDefaultArgs THEN RemoveDefaultArgs(templateStatement, 1, FALSE)
               ELSE templateStatement)>>
            \o TemplateStatementsFrom(full, masked, next, removeDefaultArgs)

TemplateStatementsOf(fullTemplateStatement, removeDefaultArgs) ==
    TemplateStatementsFrom(fullTemplateStatement,
                           maskAngleBrackets(fullTemplateStatement, TRUE), 1, removeDefaultArgs)

templateStatements(doc, s, removeDefaultArgs) ==
    IF ~isTemplate(doc, s) THEN <<>>
    ELSE LET fullTemplateRange == Range(trueStart(doc, s), declarationStart(doc, s))
             fullTemplateStatement ==
                 StripIndentation(removeComments(GetText(doc, fullTemplateRange)), 1,
                                  Indentation(doc, s), TRUE)
         IN TemplateStatementsOf(fullTemplateStatement, removeDefaultArgs)

\* isUnspecializedTemplate(): /\btemplate\s*<\s*[^\s>]/ on the full leading text
TemplateWithParameters(txt) ==
    \E i \in 1..Len(txt) :
        /\ txt[i] = "template"
        /\ LET j == SkipWhite(txt, i + 1)
               k == SkipWhite(txt, j + 1)
           IN j <= Len(txt) /\ txt[j] = "<" /\ k <= Len(txt) /\ txt[k] # ">"

isUnspecializedTemplate(doc, s) ==
    TemplateWithParameters(parsableTemplateSnippet(doc, s) \o parsableLeadingText(doc, s))

RECURSIVE Flatten(_, _)
Flatten(seqs, separator) ==
    IF seqs = <<>> THEN <<>> ELSE Head(seqs) \o <<separator>> \o Flatten(Tail(seqs), separator)

\* allTemplateStatements: those of the class-type scopes that are
\* unspecialized templates, then those of the symbol
RECURSIVE ScopeTemplateStatements(_, _, _, _)
ScopeTemplateStatements(doc, scopes, i, removeDefaultArgs) ==
    IF i > Len(scopes) THEN <<>>
    ELSE (IF isClassType(scopes[i]) /\ isUnspecializedTemplate(doc, scopes[i])
          THEN templateStatements(doc, scopes[i], removeDefaultArgs) ELSE <<>>)
         \o ScopeTemplateStatements(doc, scopes, i + 1, removeDefaultArgs)

allTemplateStatements(doc, s, removeDefaultArgs, forMember) ==
    ScopeTemplateStatements(doc, s.scopes, 1, removeDefaultArgs)
        \o (IF ~forMember \/ isUnspecializedTemplate(doc, s)
            THEN templateStatements(doc, s, removeDefaultArgs) ELSE <<>>)

\* combinedTemplateStatements(removeDefaultArgs, separator)
combinedTemplateStatements(doc, s, removeDefaultArgs, separator) ==
    Flatten(allTemplateStatements(doc, s, removeDefaultArgs, FALSE), separator)

\* The index of the last lexeme before i that is not white space.
RECURSIVE SkipWhiteBack(_, _)
SkipWhiteBack(txt, i) == IF i >= 1 /\ txt[i] \in White THEN SkipWhiteBack(txt, i - 1) ELSE i

\* re_beginningOfScopeString = /(?<!::\s*|[\w\d_])[\w_][\w\d_]*(?=\s*::)/g at lexeme p
BeginningOfScopeString(txt, p) ==
    /\ IsWord(txt[p])
    /\ LET j == SkipWhite(txt, p + 1) IN j < Len(txt) /\ txt[j] = ":" /\ txt[j + 1] = ":"
    /\ LET b == SkipWhiteBack(txt, p - 1) IN ~(b >= 2 /\ txt[b] = ":" /\ txt[b - 1] = ":")

scopeStringStart(doc, s) ==
    LET trimmedLeadingText == maskAngleBrackets(trimEnd(parsableLeadingText(doc, s)), FALSE)
        n == Len(trimmedLeadingText)
        matches == {p \in 1..n : BeginningOfScopeString(trimmedLeadingText, p)}
    IN IF ~(n >= 2 /\ trimmedLeadingText[n] = ":" /\ trimmedLeadingText[n - 1] = ":")
       THEN s.selectionRange.start
       ELSE IF matches = {} THEN s.selectionRange.start
       ELSE startOffset(s) + Last(matches) - 1

\* parse.stripDefaultValues: each `parameter = value` of the parameter list
\* becomes `parameter`; the values end at a comma outside brackets.
RECURSIVE StripDefaultValuesFrom(_, _, _, _)
StripDefaultValuesFrom(txt, i, depth, skipping) ==
    IF i > Len(txt) THEN <<>>
    ELSE LET t == txt[i]
             d == IF t \in {"(", "{", "<"} THEN depth + 1
                  ELSE IF t \in {")", "}", ">"} /\ depth > 0 THEN depth - 1 ELSE depth
             j == SkipWhite(txt, i)
         IN IF skipping
            THEN IF t = "," /\ depth = 0
                 THEN <<t>> \o StripDefaultValuesFrom(txt, i + 1, 0, FALSE)
                 ELSE StripDefaultValuesFrom(txt, i + 1, d, TRUE)
            ELSE IF depth = 0 /\ j <= Len(txt) /\ txt[j] = "="
            THEN StripDefaultValuesFrom(txt, j + 1, 0, TRUE)
            ELSE <<t>> \o StripDefaultValuesFrom(txt, i + 1, d, FALSE)

stripDefaultValues(parameters) == StripDefaultValuesFrom(parameters, 1, 0, FALSE)

\* replace(/\b(w1|w2|...)\b\s*/g, ''), or the first match only
RECURSIVE RemoveWords(_, _, _, _)
RemoveWords(txt, i, words, global) ==
    IF i > Len(txt) THEN <<>>
    ELSE IF txt[i] \in words
    THEN IF global THEN RemoveWords(txt, SkipWhite(txt, i + 1), words, global)
         ELSE SubSeq(txt, SkipWhite(txt, i + 1), Len(txt))
    ELSE <<txt[i]>> \o RemoveWords(txt, i + 1, words, global)

\* the text from lexeme i on, override and final left in place
KeepOverrideFinal(txt, i) == SubSeq(txt, i, Len(txt))

\* replace(/\s*\b(override|final)\b/g, '')
RECURSIVE RemoveOverrideFinal(_, _)
RemoveOverrideFinal(txt, i) ==
    IF i > Len(txt) THEN <<>>
    ELSE LET j == SkipWhite(txt, i) IN
         IF j <= Len(txt) /\ txt[j] \in {"override", "final"}
         THEN RemoveOverrideFinal(txt, j + 1)
         ELSE <<txt[i]>> \o RemoveOverrideFinal(txt, i + 1)

\* the last of txt.split(endOfLine)
LastLine(txt) == SubstringFrom(txt, LastIndexOf(txt, "\n") + 1)

\* definition.replace(/^ {n}/gm, ' '.repeat(m))
RECURSIVE Realign(_, _, _, _, _)
Realign(txt, i, n, m, atLineStart) ==
    IF i > Len(txt) THEN <<>>
    ELSE IF /\ atLineStart /\ i + n - 1 <= Len(txt)
            /\ \A k \in i..(i + n - 1) : txt[k] = " "
    THEN Spaces(m) \o Realign(txt, i + n, n, m, FALSE)
    ELSE <<txt[i]>> \o Realign(txt, i + 1, n, m, txt[i] = "\n")

\* An optional argument: <<>> when it is left undefined, <<value>> otherwise.
Given(option) == option # <<>>

\* declaration.replace(/;$/, '')
WithoutSemicolon(written) ==
    IF endsWith(written, ";") THEN SubSeq(written, 1, Len(written) - 1) ELSE written

\* formatDeclaration() from the masking of the declaration on: qualifier is
\* the scope string, declStart the start of the declaration range and
\* declaration its text.
FormatDeclarationFrom(doc, s, targetDoc, position, checkForInline, qualifier, declStart, declaration) ==
    LET maskedDeclaration == maskParentheses(maskNonSourceText(declaration))
        paramStartIndex == IndexOf(maskedDeclaration, "(")
        paramEndIndex == LastIndexOf(maskedDeclaration, ")")
        parameters == stripDefaultValues(Substring(declaration, paramStartIndex + 1, paramEndIndex))
        paramStart == declStart + paramStartIndex
        nameToParamRange == Range(s.selectionRange.start, paramStart)
        inlineSpecifier ==
            IF /\ s.scopes = <<>> \/ ~containsExclusive(s.scopes[Len(s.scopes)].range, position)
               /\ targetDoc.same \/ targetDoc.isHeader
               /\ checkForInline
               /\ ~isInline(doc, s) /\ ~isConstexpr(doc, s) /\ ~isConsteval(doc, s)
            THEN <<"inline", " ">> ELSE <<>>
        nameStart == scopeStringStart(doc, s)
        leadingText0 == GetText(doc, Range(declStart, nameStart))
        oldScopeString == GetText(doc, Range(nameStart, s.selectionRange.start))
        leadingIndent == Indentation(doc, s)
        alignLength == Len(trimStart(LastLine(leadingText0)))
        newLineAlignment == leadingIndent + alignLength + Len(oldScopeString)
        leadingText1 == RemoveWords(leadingText0, 1, {"virtual", "static", "explicit", "friend"}, TRUE)
        leadingText2 == IF ~targetDoc.isHeader \/ ~checkForInline
                        THEN RemoveWords(leadingText1, 1, {"inline"}, FALSE) ELSE leadingText1
        leadingText == StripIndentation(leadingText2, 1, leadingIndent, TRUE)
        definition0 == GetText(doc, nameToParamRange) \o <<"(">> \o parameters \o <<")">>
                          \o SubstringFrom(declaration, paramEndIndex + 1)
        newAlignLength == Len(LastLine(leadingText))
        inlineSpecifierAlignment ==
            IF LastIndexOf(leadingText, "\n") = -1 THEN Len(inlineSpecifier) ELSE 0
        definition1 == IF newLineAlignment # 0
                       THEN Realign(definition0, 1, newLineAlignment,
                                    newAlignLength + inlineSpecifierAlignment + Len(qualifier), TRUE)
                       ELSE definition0
    IN IF paramStartIndex = -1 \/ paramEndIndex = -1 THEN <<>>
       ELSE RemoveOverrideFinal(
                combinedTemplateStatements(doc, s, TRUE, "\n")
                    \o inlineSpecifier \o leadingText \o qualifier \o definition1, 1)

\* formatDeclaration(targetDoc, position, scopeString?, checkForInline?);
\* target holds the symbols of the target document, targetDoc tells whether
\* it is this document and whether it is a header.
formatDeclaration(doc, s, target, targetDoc, position, scopeStringArg, checkForInline, languageServer) ==
    LET declStart == declarationStart(doc, s)
        declarationRange == Range(declStart, declarationEnd(doc, s))
    IN FormatDeclarationFrom(doc, s, targetDoc, position, checkForInline,
           IF Given(scopeStringArg) THEN scopeStringArg[1]
           ELSE scopeString(s, target, position, FALSE, languageServer),
           declStart, WithoutSemicolon(GetText(doc, declarationRange)))

\* getDefinitionForTargetPosition(targetDoc, position, declarationSymbol?, checkForInline?)
getDefinitionForTargetPosition(doc, s, target, targetDoc, position, declarationSymbol, checkForInline, alwaysMoveComments, languageServer) ==
    LET bodyRange == Range(declarationEnd(doc, s), s.range.end)
        bodyText == StripIndentation(GetText(doc, bodyRange), 1, Indentation(doc, s), TRUE)
        qualifier == IF Given(declarationSymbol)
                     THEN <<scopeString(declarationSymbol[1], target, position, FALSE, languageServer)>>
                     ELSE <<>>
        comment == IF alwaysMoveComments
                   THEN StripIndentation(
                            GetText(doc, Range(leadingCommentStart(doc, s), trueStart(doc, s))),
                            1, Indentation(doc, s), TRUE)
                   ELSE <<>>
    IN comment
       \o formatDeclaration(doc, s, target, targetDoc, position, qualifier,
                            checkForInline, languageServer)
       \o bodyText

getDeclarationForTargetPosition(doc, s, target, targetDoc, position, languageServer) ==
    formatDeclaration(doc, s, target, targetDoc, position, <<>>, FALSE, languageServer) \o <<";">>

newFunctionDefinition(doc, s, target, targetDoc, position, languageServer) ==
    IF ~isFunctionDeclaration(doc, s) THEN <<>>
    ELSE formatDeclaration(doc, s, target, targetDoc, position, <<>>, TRUE, languageServer)

\* What follows the name of the function: a parameter list (with a default
\* value, with a parameter named final, or followed by override or by
\* const final), nothing at all (a function declared through a typedef of
\* its type), or a parameter list that is commented out.
ParameterLists ==
    { <<"(", "int", " ", "x", ")">>,
      <<"(", "int", " ", "x", " ", "=", " ", "1", ")">>,
      <<"(", ")", " ", "override">>,
      <<"(", "int", " ", "final", ")">>,
      <<"(", ")", " ", "const", " ", "final">>,
      <<>>,
      <<" ", "/*", "(", ")", "*/">> }

\* A file holding one function, declared or defined, maybe in namespace N:
\*   [namespace N {\n] [// doc\n] [template<typename T> ] [specifier ] T f<parameters>; | { }
DeclInputs ==
    [namespace : BOOLEAN, comment : BOOLEAN, template : BOOLEAN,
     specifier : {"", "virtual", "inline", "constexpr", "static", "explicit", "friend"},
     parameters : ParameterLists, sameFile : BOOLEAN,
     body : BOOLEAN, isHeader : BOOLEAN]

DeclDoc(in) ==
    LET pre  == (IF in.namespace THEN <<"namespace", " ", "N", " ", "{", "\n">> ELSE <<>>)
                \o (IF in.comment THEN <<"//", "doc", "\n">> ELSE <<>>)
                \o (IF in.template THEN TemplateToks ELSE <<>>)
        spec == IF in.specifier = "" THEN <<>> ELSE <<in.specifier, " ">>
        stmt == spec \o <<"T", " ", "f">> \o in.parameters
        tail == IF in.body THEN <<" ", "{", " ", "}">> ELSE <<>>
        toks == pre \o stmt \o tail \o (IF in.body THEN <<>> ELSE <<";">>) \o <<"\n">>
                    \o (IF in.namespace THEN <<"}", "\n">> ELSE <<>>)
        name == Len(pre) + Len(spec) + 2
        N    == [kind |-> "namespace", name |-> "N", range |-> Range(0, Len(toks) - 1),
                 selectionRange |-> Range(2, 3), children |-> <<>>, parent |-> "",
                 nameText |-> <<"N">>, templateParameters |-> <<>>, scopes |-> <<>>]
    IN [document |-> toks,
        scopes |-> IF in.namespace THEN <<N>> ELSE <<>>,
        symbol |-> [kind |-> "function", name |-> "f",
                    range |-> Range(Len(pre), Len(pre) + Len(stmt) + Len(tail)),
                    selectionRange |-> Range(name, name + 1), children |-> <<>>,
                    parent |-> IF in.namespace THEN "N" ELSE "",
                    scopes |-> IF in.namespace THEN <<N>> ELSE <<>>]]

InitDecl ==
    /\ input \in DeclInputs
    /\ document = DeclDoc(input).document
    /\ symbol = CSymbol(document, DeclDoc(input).symbol)
    /\ accessCache = <<>>
    /\ result = NoResult

\* The target document is the document of the symbol, or another file that
\* holds the same scopes at the same places.
TargetDoc == [same |-> input.sameFile, isHeader |-> input.isHeader]

\* the positions asked for: the start of the file, and the start of the function
TargetPositions == {0, symbol.range.start}

NewFunctionDefinition(position) ==
    /\ result.op = "none"
    /\ result' = [op |-> "newFunctionDefinition", position |-> position,
                  value |-> newFunctionDefinition(document, symbol, symbol.scopes, TargetDoc,
                                                  position, "clangd")]
    /\ UNCHANGED <<input, document, symbol, accessCache>>

GetDeclarationForTargetPosition(position) ==
    /\ result.op = "none"
    /\ result' = [op |-> "getDeclarationForTargetPosition", position |-> position,
                  value |-> getDeclarationForTargetPosition(document, symbol, symbol.scopes,
                                                            TargetDoc, position, "clangd")]
    /\ UNCHANGED <<input, document, symbol, accessCache>>

GetDefinitionForTargetPosition(position, declarationSymbol, checkForInline, alwaysMoveComments) ==
    /\ result.op = "none"
    /\ result' = [op |-> "getDefinitionForTargetPosition", position |-> position,
                  declarationSymbol |-> declarationSymbol, checkForInline |-> checkForInline,
                  alwaysMoveComments |-> alwaysMoveComments,
                  value |-> getDefinitionForTargetPosition(document, symbol, symbol.scopes,
                                TargetDoc, position, declarationSymbol, checkForInline,
                                alwaysMoveComments, "clangd")]
    /\ UNCHANGED <<input, document, symbol, accessCache>>

\* The definition that an empty body is appended to and that is written
\* to a file of its own: the document, and the symbol the language server
\* reports for it (its range is the whole definition, its name is f).
DefinitionDoc(definition) == definition \o <<" ", "{", "}", "\n">>

DefinitionSymbol(definition) ==
    LET name == (CHOOSE i \in 1..Len(definition) : definition[i] = "f") - 1
    IN CSymbol(DefinitionDoc(definition),
               Sym("function", "f", Range(0, Len(definition) + 3), Range(name, name + 1), <<>>, ""))

\* newFunctionDeclaration() of the definition made of `definition`
DeclarationOfDefinition(definition) ==
    IF definition = <<>> THEN <<>>
    ELSE newFunctionDeclaration(DefinitionDoc(definition), DefinitionSymbol(definition))

\* newFunctionDefinition(targetDoc, position), then newFunctionDeclaration()
\* on the definition that was written
RoundTrip(position) ==
    /\ result.op = "none"
    /\ result' = [op |-> "roundTrip", position |-> position,
                  value |-> DeclarationOfDefinition(
                                newFunctionDefinition(document, symbol, symbol.scopes, TargetDoc,
                                                      position, "clangd"))]
    /\ UNCHANGED <<input, document, symbol, accessCache>>

NextDecl ==
    \/ \E position \in TargetPositions : NewFunctionDefinition(position)
    \/ \E position \in TargetPositions : GetDeclarationForTargetPosition(position)
    \/ \E position \in TargetPositions, declarationSymbol \in {<<>>, <<symbol>>},
          checkForInline \in BOOLEAN, alwaysMoveComments \in BOOLEAN :
            GetDefinitionForTargetPosition(position, declarationSymbol, checkForInline,
                                           alwaysMoveComments)
    \/ NewFunctionDeclaration
    \/ \E position \in TargetPositions : RoundTrip(position)
    \/ NewInstance

SpecDecl == InitDecl /\ [][NextDecl]_vars

\* no parenthesis is written after the name, outside comments
NoParenthesisWritten == input.parameters \in {<<>>, <<" ", "/*", "(", ")", "*/">>}

\* C3: when the declaration has no parenthesis, newFunctionDefinition,
\* getDeclarationForTargetPosition and getDefinitionForTargetPosition all
\* return the empty text.
C3_NoParenthesisGivesEmptyText ==
    (/\ result.op \in {"newFunctionDefinition", "getDeclarationForTargetPosition",
                       "getDefinitionForTargetPosition"}
     /\ NoParenthesisWritten)
        => result.value = <<>>

\* newFunctionDefinition alone returns the empty text in that case.
NewFunctionDefinitionFailsEmpty ==
    (result.op = "newFunctionDefinition" /\ NoParenthesisWritten) => result.value = <<>>

\* the lexemes of a text that are not white space
NonWhite(txt) == SelectSeq(txt, LAMBDA t : t \notin White)

\* a occurs in b as a subsequence: its lexemes, in their order
RECURSIVE IsSubsequence(_, _)
IsSubsequence(a, b) ==
    IF a = <<>> THEN TRUE
    ELSE IF b = <<>> THEN FALSE
    ELSE IF Head(a) = Head(b) THEN IsSubsequence(Tail(a), Tail(b))
    ELSE IsSubsequence(a, Tail(b))

StrippedSpecifiers == {"virtual", "static", "explicit", "friend", "override", "final"}

\* the return type, the name, and the parameter list with its names, types
\* and the cv qualifier that follows it, as the declaration was written
KeptLexemes ==
    <<"T", "f">> \o
    CASE input.parameters = <<"(", "int", " ", "x", ")">> -> <<"(", "int", "x", ")">>
      [] input.parameters = <<"(", "int", " ", "x", " ", "=", " ", "1", ")">> -> <<"(", "int", "x", ")">>
      [] input.parameters = <<"(", ")", " ", "override">> -> <<"(", ")">>
      [] input.parameters = <<"(", "int", " ", "final", ")">> -> <<"(", "int", "final", ")">>
      [] input.parameters = <<"(", ")", " ", "const", " ", "final">> -> <<"(", ")", "const">>
      [] OTHER -> <<>>

\* formatDeclaration was run on a declaration with a parameter list
DeclarationFormatted ==
    /\ result.op \in {"newFunctionDefinition", "getDeclarationForTargetPosition",
                       "getDefinitionForTargetPosition"}
    /\ ~NoParenthesisWritten
    /\ result.value # <<>>

\* a parameter of the declaration is named like a specifier
SpecifierNamedParameter == input.parameters = <<"(", "int", " ", "final", ")">>

\* C13: the synthesized text holds none of virtual, static, explicit,
\* friend, override, final, and the return type, the name, the parameter
\* names and types and the cv qualifier of the declaration are all in it,
\* in their order.
C13_SpecifiersStrippedRestKept ==
    DeclarationFormatted =>
        /\ \A i \in 1..Len(result.value) : result.value[i] \notin StrippedSpecifiers
        /\ IsSubsequence(KeptLexemes, NonWhite(result.value))

\* The same, for the declarations whose parameters are not named like a specifier.
SpecifiersStrippedRestKeptUnlessNamedAlike ==
    (DeclarationFormatted /\ ~SpecifierNamedParameter) =>
        /\ \A i \in 1..Len(result.value) : result.value[i] \notin StrippedSpecifiers
        /\ IsSubsequence(KeptLexemes, NonWhite(result.value))

\* how many times the text holds the keyword inline
InlineCount(txt) == Len(SelectSeq(txt, LAMBDA t : t = "inline"))

\* the synthesized text has an inline that the declaration did not have
InlinePrefixed == InlineCount(result.value) > (IF input.specifier = "inline" THEN 1 ELSE 0)

\* C14: inline is prefixed only when the target document is a header and
\* the declaration is not inline, constexpr or consteval already; never
\* when the target is not a header; and the text never holds inline twice.
C14_InlineOnlyInHeaders ==
    DeclarationFormatted =>
        /\ InlinePrefixed => (input.isHeader /\ input.specifier \notin {"inline", "constexpr"})
        /\ InlineCount(result.value) <= 1

\* the position lies strictly inside the scope that encloses the function
InsideParent ==
    /\ symbol.scopes # <<>>
    /\ containsExclusive(symbol.scopes[Len(symbol.scopes)].range, result.position)

\* the call asked formatDeclaration to check for inline
ChecksForInline ==
    \/ result.op = "newFunctionDefinition"
    \/ result.op = "getDefinitionForTargetPosition" /\ result.checkForInline

\* inline is prefixed exactly when the target is a header or the file of
\* the declaration itself, the position is outside the enclosing scope, the
\* call checks for inline and the declaration is not inline or constexpr.
InlineInHeadersAndSameFile ==
    DeclarationFormatted =>
        /\ InlinePrefixed <=> /\ input.isHeader \/ input.sameFile
                              /\ ~InsideParent
                              /\ ChecksForInline
                              /\ input.specifier \notin {"inline", "constexpr"}
        /\ InlineCount(result.value) <= 1

\* C15: newFunctionDeclaration() on a function definition is the text of
\* the document from trueStart to declarationEnd(), without the white space
\* at its end, followed by one `;` and no more: the template statement is
\* in it, the body is not; on any other symbol it is the empty text.
C15_DeclarationOfDefinition ==
    result.op = "newFunctionDeclaration" =>
        IF input.body
        THEN LET written == SubSeq(document, trueStart(document, symbol) + 1,
                                   declarationEnd(document, symbol))
                 n == Len(result.value)
             IN /\ result.value = trimEnd(written) \o <<";">>
                /\ n >= 2 /\ result.value[n - 1] \notin White \cup {";"}
                /\ input.template => SubSeq(result.value, 1, Len(TemplateToks)) = TemplateToks
                /\ \A i \in 1..n : result.value[i] \notin {"{", "}"}
         ELSE result.value = <<>>

\* the definition `template<typename T> T f(int x) { }` gives
\* `template<typename T> T f(int x);`
C15_Witness ==
    /\ result.op = "newFunctionDeclaration"
    /\ input.body /\ input.template
    /\ result.value = TemplateToks \o <<"T", " ", "f", "(", "int", " ", "x", ")", ";">>

\* In a class, the definition of a constructor with a member-initializer
\* list gives the text before the list, and members that are not function
\* definitions give the empty text.
DeclarationOfMemberDefinition ==
    result.op = "newFunctionDeclaration" =>
        IF symbol.name = "C" /\ isConstructor(symbol)
        THEN result.value = <<"C", "(", ")", ";">>
        ELSE IF symbol.name = "get_a"
        THEN result.value = <<"int", " ", "get_a", "(", ")", ";">>
        ELSE result.value = <<>>

\* the declaration as it was written, from its specifier to its semicolon
WrittenDeclaration ==
    (IF input.specifier = "" THEN <<>> ELSE <<input.specifier>>)
        \o <<"T", "f">> \o NonWhite(input.parameters) \o <<";">>

\* a well-formed declaration of a function that is not a template
RoundTripMade ==
    /\ result.op = "roundTrip"
    /\ ~input.body /\ ~input.template /\ ~NoParenthesisWritten

RoundTripIsIdentityOnPlainDeclarations ==
    (/\ RoundTripMade
     /\ input.specifier \in {"", "constexpr"}
     /\ input.parameters \in {<<"(", "int", " ", "x", ")">>}
     /\ ~input.isHeader /\ ~input.sameFile
     /\ input.namespace => InsideParent)
        => NonWhite(result.value) = WrittenDeclaration


-----------------------------------------------------------------------------
(* Default-value stripping: CSymbol.stripDefaultValues                     *)

\* replace(/[^\w\s]=/g, ''): a punctuation character and the = next to it
RECURSIVE RemoveComparisonOperators(_, _)
RemoveComparisonOperators(txt, i) ==
    IF i > Len(txt) THEN <<>>
    ELSE IF i < Len(txt) /\ txt[i] \in Punct \ {"//", "/*", "*/"} /\ txt[i + 1] = "="
    THEN RemoveComparisonOperators(txt, i + 2)
    ELSE <<txt[i]>> \o RemoveComparisonOperators(txt, i + 1)

\* /\b\s*=\s*\b/ matches at the = at lexeme e: a word, white space or none,
\* the =, white space or none, a word
AssignmentAt(txt, e) ==
    /\ txt[e] = "="
    /\ LET a == SkipWhiteBack(txt, e - 1)
           b == SkipWhite(txt, e + 1)
       IN a >= 1 /\ IsWord(txt[a]) /\ b <= Len(txt) /\ IsWord(txt[b])

\* replace(/\b\s*=\s*\b/g, '='): the white space around such an = is dropped
CollapseAssignments(txt) ==
    LET dropped(k) ==
            /\ txt[k] \in White
            /\ \E e \in 1..Len(txt) :
                  /\ AssignmentAt(txt, e)
                  /\ SkipWhiteBack(txt, e - 1) < k /\ k < SkipWhite(txt, e + 1)
        kept == {k \in 1..Len(txt) : ~dropped(k)}
        nth[n \in 1..Cardinality(kept)] ==
            CHOOSE k \in kept : Cardinality({j \in kept : j < k}) = n - 1
    IN [n \in 1..Cardinality(kept) |-> txt[nth[n]]]

\* replace(/\(\)/g, '')
RECURSIVE RemoveEmptyParentheses(_, _)
RemoveEmptyParentheses(txt, i) ==
    IF i > Len(txt) THEN <<>>
    ELSE IF i < Len(txt) /\ txt[i] = "(" /\ txt[i + 1] = ")"
    THEN RemoveEmptyParentheses(txt, i + 2)
    ELSE <<txt[i]>> \o RemoveEmptyParentheses(txt, i + 1)

\* replace(/(?<=<)(>(?=>)|[^>])*(?=>)/g, mask): what stands between a < and
\* the next > that is not followed by another >
RECURSIVE MaskTemplateParameters(_, _, _)
MaskTemplateParameters(txt, i, inside) ==
    IF i > Len(txt) THEN <<>>
    ELSE IF ~inside
    THEN <<txt[i]>>
         \o MaskTemplateParameters(txt, i + 1,
                txt[i] = "<" /\ \E k \in (i + 1)..Len(txt) : txt[k] = ">")
    ELSE IF txt[i] = ">" /\ ~(i < Len(txt) /\ txt[i + 1] = ">")
    THEN <<txt[i]>> \o MaskTemplateParameters(txt, i + 1, FALSE)
    ELSE <<MaskTok(txt[i])>> \o MaskTemplateParameters(txt, i + 1, TRUE)

\* maskUnimportantText: comments, string literals and template parameters
maskUnimportantText(sourceText) ==
    MaskTemplateParameters(maskNonSourceText(sourceText), 1, FALSE)

\* the for loop of stripDefaultValues over maskedParameters.split(','),
\* from the parameter that starts at charPos on
RECURSIVE StripMaskedParameters(_, _, _)
StripMaskedParameters(parameters, masked, charPos) ==
    LET rest == SubstringFrom(masked, charPos)
        comma == IndexOf(rest, ",")
        maskedParameter == IF comma = -1 THEN rest ELSE Substring(rest, 0, comma)
        equals == IndexOf(maskedParameter, "=")
        length == IF equals # -1 THEN equals ELSE Len(maskedParameter)
    IN Substring(parameters, charPos, charPos + length) \o <<",">>
       \o (IF comma = -1 THEN <<>>
           ELSE StripMaskedParameters(parameters, masked, charPos + Len(maskedParameter) + 1))

\* the loop of stripDefaultValues and its return, on the parameters that
\* the three replacements have left
StripDefaultValuesOf(parameters) ==
    LET strippedParameters ==
            StripMaskedParameters(parameters, maskUnimportantText(parameters), 0)
    IN SubSeq(strippedParameters, 1, Len(strippedParameters) - 1)

\* CSymbol.stripDefaultValues(parameters)
stripDefaultValuesOfCSymbol(parameters) ==
    StripDefaultValuesOf(
        RemoveEmptyParentheses(
            CollapseAssignments(RemoveComparisonOperators(parameters, 1)), 1))

\* The parameters a list is made of: a type, and a default value or none.
ParameterTypes ==
    { <<"int">>,
      <<"std", ":", ":", "vector", "<", "int", ">">>,
      <<"std", ":", ":", "map", "<", "int", ",", "int", ">">> }

DefaultValues ==
    { <<>>,
      <<"5">>,
      <<"{", "1", ",", "2", "}">>,
      <<"T", "<", "1", ",", "2", ">", "(", ")">>,
      <<"\"", "a", ",", "b", "\"">> }

\* how the = of a default value is written
Assignments == { <<" ", "=", " ">>, <<"=">> }

ParameterInputs ==
    [type : ParameterTypes, value : DefaultValues, assignment : Assignments]

MaxParameters == 2

\* `type name`, and `type name = value` when there is a default value
ParameterToks(parameter, name) ==
    parameter.type \o <<" ", name>>
        \o (IF parameter.value = <<>> THEN <<>> ELSE parameter.assignment \o parameter.value)

ParameterNames == <<"x", "y", "z">>

\* the parameter list as it is written, and as it reads without default values
RECURSIVE ParameterListToks(_, _, _)
ParameterListToks(list, k, withValues) ==
    IF k > Len(list) THEN <<>>
    ELSE (IF k > 1 THEN <<",", " ">> ELSE <<>>)
         \o (IF withValues THEN ParameterToks(list[k], ParameterNames[k])
             ELSE list[k].type \o <<" ", ParameterNames[k]>>)
         \o ParameterListToks(list, k + 1, withValues)

InitStrip ==
    /\ input \in {list \in SeqsUpTo(ParameterInputs, MaxParameters) :
                    /\ list # <<>>
                    /\ \A k \in 1..Len(list) :
                          list[k].value = <<>> => list[k].assignment = <<"=">>}
    /\ document = ParameterListToks(input, 1, TRUE)
    /\ symbol = NoSymbol
    /\ accessCache = <<>>
    /\ result = NoResult

StripDefaultValues ==
    /\ result.op = "none"
    /\ result' = [op |-> "stripDefaultValues", value |-> stripDefaultValuesOfCSymbol(document)]
    /\ UNCHANGED <<input, document, symbol, accessCache>>

NextStrip == StripDefaultValues \/ NewInstance

SpecStrip == InitStrip /\ [][NextStrip]_vars

\* C17: stripDefaultValues gives the parameter list without its default
\* values and with everything else as it was written (white space aside),
\* also when a default value holds commas inside braces or angle brackets;
\* a list without default values is returned as it is.
C17_DefaultValuesStripped ==
    result.op = "stripDefaultValues" =>
        /\ NonWhite(result.value) = NonWhite(ParameterListToks(input, 1, FALSE))
        /\ (\A k \in 1..Len(input) : input[k].value = <<>>) => result.value = document

\* a default value holds a comma inside braces
BracedListValue == \E k \in 1..Len(input) : input[k].value = <<"{", "1", ",", "2", "}">>

\* The same, for the lists that have no default value with a comma inside braces.
DefaultValuesStrippedUnlessBracedList ==
    (result.op = "stripDefaultValues" /\ ~BracedListValue) =>
        /\ NonWhite(result.value) = NonWhite(ParameterListToks(input, 1, FALSE))
        /\ (\A k \in 1..Len(input) : input[k].value = <<>>) => result.value = document

\* parse.stripDefaultValues, which formatDeclaration calls, strips the lists
\* whose default values are not string literals.
ParseStripDefaultValuesStrips ==
    (\A k \in 1..Len(input) : input[k].value # <<"\"", "a", ",", "b", "\"">>) =>
        NonWhite(stripDefaultValues(document)) = NonWhite(ParameterListToks(input, 1, FALSE))


-----------------------------------------------------------------------------
(* trueEnd                                                                 *)

\* where, in what follows the closing brace, the first semicolon outside
\* comments stands; 0 when there is none
TrailerSemicolon(trailer) ==
    CASE trailer = <<";">> -> 1
      [] trailer = <<" ", "x", ";">> -> 3
      [] trailer = <<" ", "/*", ";", "*/", " ", "x", ";">> -> 7
      [] OTHER -> 0

\* the symbol under query is the class-type or enum of the document
TopClassTypeOrEnum ==
    /\ symbol.name = ClassName
    /\ symbol.kind = input.kw
    /\ input.kw \in {"class", "struct", "union", "enum"}

\* C18: trueEnd of a class-type or enum is the position just past the first
\* semicolon outside comments after the closing brace, and the range end when
\* there is none; trueEnd of every other symbol is its range end.
C18_TrueEnd ==
    result.op = "boundaries" =>
        result.trueEnd =
            IF TopClassTypeOrEnum /\ TrailerSemicolon(input.trailer) > 0
            THEN ClassDoc(input).symbol.range.end + TrailerSemicolon(input.trailer)
            ELSE symbol.range.end

\* A struct and an enum followed by a comment that holds a semicolon and then
\* by an instance declaration: trueEnd is past the semicolon of the declaration.
C18_Witness ==
    /\ result.op = "boundaries"
    /\ TopClassTypeOrEnum
    /\ input.trailer = <<" ", "/*", ";", "*/", " ", "x", ";">>
    /\ result.trueEnd = Len(document)
    /\ result.trueEnd > symbol.range.end


-----------------------------------------------------------------------------
(* Comment-safety                                                          *)

\* C19: two documents that differ only in what a comment or a string literal
\* holds give the same accessSpecifiers, rangesOfAccess, declarationEnd,
\* bodyStart, bodyEnd, trueEnd, leadingCommentStart and trailingCommentEnd
\* for the same symbol.
C19_CommentSafety ==
    result.op = "boundariesOfBoth" => result.first = result.second

\* the lexeme in which the two documents differ
EditedLexeme ==
    result.edited[CHOOSE i \in 1..Len(document) : result.edited[i] # document[i]]

\* The same when the comment or string literal is given a brace, a colon, a
\* semicolon or a word, and no comment delimiter.
CommentSafetyWithoutDelimiters ==
    (result.op = "boundariesOfBoth" /\ EditedLexeme \in {"x", ";", "{", "}", ":", "\""})
        => result.first = result.second

\* The queries other than trailingCommentEnd are the same for every edit.
CommentSafetyButTrailingCommentEnd ==
    result.op = "boundariesOfBoth" =>
        \A query \in DOMAIN result.first \ {"trailingCommentEnd"} :
            result.first[query] = result.second[query]


-----------------------------------------------------------------------------
(* Queries asked of every kind of symbol                                   *)

\* class C and struct C of up to two members, namespace C of one member at
\* most, and enum C
QueryItems == {"field", "decl", "def", "nested"}

QueryInputs ==
    { ClassInput(FALSE, FALSE, FALSE, kw, FALSE, items, " ", <<";">>) :
        kw \in {"class", "struct"}, items \in SeqsUpTo(QueryItems, 2) }
    \cup { ClassInput(FALSE, FALSE, TRUE, "namespace", FALSE, items, " ", <<>>) :
             items \in SeqsUpTo(QueryItems \ {"nested"}, 1) }
    \cup { ClassInput(FALSE, FALSE, FALSE, "enum", FALSE, <<>>, " ", <<";">>) }

InitQueries ==
    /\ input \in QueryInputs
    /\ document = ClassDoc(input).document
    /\ symbol \in SymbolsOf(ClassDoc(input))
    /\ accessCache = <<>>
    /\ result = NoResult

\* the symbol with the scopes that enclose it: the class-type or namespace
\* of the document for a member, none for the class-type or namespace itself
EnclosingScope ==
    [kind |-> TopSymbol.kind, name |-> TopSymbol.name, range |-> TopSymbol.range,
     selectionRange |-> TopSymbol.selectionRange, children |-> TopSymbol.children,
     parent |-> "", nameText |-> <<ClassName>>, templateParameters |-> <<>>, scopes |-> <<>>]

WithScopes(s) ==
    [f \in DOMAIN s \cup {"scopes"} |->
        IF f # "scopes" THEN s[f]
        ELSE IF s.parent = "" THEN <<>>
        ELSE <<EnclosingScope>>]

QueryAccessorNames(config) ==
    /\ result.op = "none"
    /\ result' = [op |-> "accessorNames", config |-> config,
                  getterName |-> getterName(document, symbol, config),
                  setterName |-> setterName(symbol, config)]
    /\ UNCHANGED <<input, document, symbol, accessCache>>

\* findGetterFor(memberVariable) and findSetterFor(memberVariable), called on
\* memberVariable.parent (parentIsThis) or on another CSymbol
QueryFindAccessors(memberVariable, parentIsThis, config) ==
    /\ result.op = "none"
    /\ parentIsThis => (symbol = TopSymbol /\ memberVariable \in MembersOf(ClassDoc(input)))
    /\ result' = [op |-> "findAccessors", memberVariable |-> memberVariable,
                  parentIsThis |-> parentIsThis, config |-> config,
                  getter |-> findGetterFor(document, symbol, memberVariable, parentIsThis, config),
                  setter |-> findSetterFor(document, symbol, memberVariable, parentIsThis, config)]
    /\ UNCHANGED <<input, document, symbol, accessCache>>

\* newFunctionDefinition(targetDoc, position) for another file that holds no
\* symbol, at its start
NewFunctionDefinitionElsewhere(isHeader) ==
    /\ result.op = "none"
    /\ result' = [op |-> "newFunctionDefinition", position |-> 0, isHeader |-> isHeader,
                  value |-> newFunctionDefinition(document, WithScopes(symbol), <<>>,
                                [same |-> FALSE, isHeader |-> isHeader], 0, "clangd")]
    /\ UNCHANGED <<input, document, symbol, accessCache>>

NextQueries ==
    \/ \E config \in Configs : QueryAccessorNames(config)
    \/ \E memberVariable \in SymbolsOf(ClassDoc(input)), parentIsThis \in BOOLEAN, config \in Configs :
          QueryFindAccessors(memberVariable, parentIsThis, config)
    \/ \E access \in AccessLevels, relativeName \in RelativeNames,
          memberVariable \in MemberVariables, caseStyle \in {"snake_case", "camelCase"} :
            QueryFindPosition(access, relativeName, memberVariable, caseStyle)
    \/ \E isHeader \in BOOLEAN : NewFunctionDefinitionElsewhere(isHeader)
    \/ NewInstance

SpecQueries == InitQueries /\ [][NextQueries]_vars

\* the symbol under query is written as a data member of a class or struct
WrittenMemberVariable(s) == s.name = "a" /\ input.kw \in {"class", "struct"}

\* the symbol is written with the keyword class or struct: C, and the nested N
WrittenClassType(s) ==
    \/ s.name = ClassName /\ input.kw \in {"class", "struct"}
    \/ s.name = "N"

\* the symbol under query is written as a function declaration
WrittenFunctionDeclaration(s) == s.name = "set_a"

\* C20: a query asked of a symbol it does not apply to answers with an empty
\* or undefined result: getterName() and setterName() give '' for a symbol
\* that is not a member variable; findGetterFor and findSetterFor give
\* undefined for an argument that is not a member variable of this symbol;
\* findPositionForNewMemberFunction gives undefined for a symbol that is not
\* a class-type; newFunctionDefinition gives '' for a symbol that is not a
\* function declaration.
C20_NotApplicableIsEmpty ==
    /\ (result.op = "accessorNames" /\ ~WrittenMemberVariable(symbol))
          => (result.getterName = "" /\ result.setterName = "")
    /\ (result.op = "findAccessors"
        /\ ~(/\ WrittenMemberVariable(result.memberVariable)
             /\ symbol = TopSymbol
             /\ result.memberVariable \in MembersOf(ClassDoc(input))))
          => (result.getter = <<>> /\ result.setter = <<>>)
    /\ (result.op = "findPosition" /\ ~WrittenClassType(symbol))
          => result.value = Undefined
    /\ (result.op = "newFunctionDefinition" /\ ~WrittenFunctionDeclaration(symbol))
          => result.value = <<>>

\* The accessor names of a member function were asked for.
C20_Witness ==
    /\ result.op = "accessorNames"
    /\ symbol.name \in {"set_a", "get_a"}
    /\ result.getterName = "" /\ result.setterName = ""

\* The same queries answer when they apply: a member variable has accessor
\* names, the setter of a member variable is found when the class-type it is
\* asked of is the parent object and declares one, a class-type has a position
\* for a new member function, and a declaration has a definition.
ApplicableQueriesAnswer ==
    /\ (result.op = "accessorNames" /\ WrittenMemberVariable(symbol))
          => (result.getterName # "" /\ result.setterName # "")
    /\ (/\ result.op = "findAccessors" /\ result.parentIsThis
        /\ WrittenMemberVariable(result.memberVariable)
        /\ result.config.caseStyle = "snake_case"
        /\ \E k \in 1..Len(symbol.children) : symbol.children[k].name = "set_a")
          => (result.setter # <<>> /\ result.setter[1].name = "set_a")
    /\ (result.op = "findPosition" /\ WrittenClassType(symbol))
          => result.value.defined
    /\ (result.op = "newFunctionDefinition" /\ WrittenFunctionDeclaration(symbol))
          => result.value # <<>>


-----------------------------------------------------------------------------
(* The cache fields of a CSymbol                                           *)

\* the derived positions: three getters and five methods
DerivedPositions ==
    {"trueStart", "trueEnd", "declarationStart", "declarationEnd", "bodyStart", "bodyEnd",
     "leadingCommentStart", "trailingCommentEnd"}

\* _trueStart, _trueEnd and _leadingCommentStart of a new instance (<<>> for
\* undefined), with the number of times each position was asked for and the
\* number of times its body ran down to a computation
EmptyCache ==
    [trueStart |-> <<>>, trueEnd |-> <<>>, leadingCommentStart |-> <<>>,
     asked |-> [q \in DerivedPositions |-> 0],
     computed |-> [q \in DerivedPositions |-> 0]]

\* the body of a getter or method runs past its cache test
Computing(cache, q) == [cache EXCEPT !.computed[q] = @ + 1]

Answer(cache, value) == [cache |-> cache, value |-> value]

\* return this._field = value
StoreAndAnswer(cache, field, value) ==
    [cache |-> [cache EXCEPT ![field] = <<value>>], value |-> value]

\* get trueEnd() with no test of this._trueEnd
trueEndGetterRescanning(cache, doc, s) ==
    StoreAndAnswer(Computing(cache, "trueEnd"), "trueEnd", trueEnd(doc, s))

\* get trueStart()
trueStartGetter(cache, doc, s) ==
    IF cache.trueStart # <<>> THEN Answer(cache, cache.trueStart[1])
    ELSE StoreAndAnswer(Computing(cache, "trueStart"), "trueStart", trueStart(doc, s))

\* get trueEnd()
trueEndGetter(cache, doc, s) ==
    IF cache.trueEnd # <<>> THEN Answer(cache, cache.trueEnd[1])
    ELSE StoreAndAnswer(Computing(cache, "trueEnd"), "trueEnd", trueEnd(doc, s))

\* get leadingCommentStart(): reads this.trueStart on its way
leadingCommentStartGetter(cache, doc, s) ==
    IF cache.leadingCommentStart # <<>> THEN Answer(cache, cache.leadingCommentStart[1])
    ELSE StoreAndAnswer(Computing(trueStartGetter(cache, doc, s).cache, "leadingCommentStart"),
                        "leadingCommentStart", leadingCommentStart(doc, s))

\* trailingCommentEnd(): reads this.trueEnd on its way
trailingCommentEndMethod(cache, doc, s) ==
    Answer(Computing(trueEndGetter(cache, doc, s).cache, "trailingCommentEnd"),
           trailingCommentEnd(doc, s))

\* declarationStart(), declarationEnd(), bodyStart() and bodyEnd()
PositionMethod(cache, doc, s, q) ==
    Answer(Computing(cache, q),
           CASE q = "declarationStart" -> declarationStart(doc, s)
             [] q = "declarationEnd"   -> declarationEnd(doc, s)
             [] q = "bodyStart"        -> bodyStart(doc, s)
             [] q = "bodyEnd"          -> bodyEnd(doc, s))

\* the derived position q asked of the instance whose cache fields are cache
DerivedPosition(cache, doc, s, q) ==
    CASE q = "trueStart"           -> trueStartGetter(cache, doc, s)
      [] q = "trueEnd"             -> trueEndGetter(cache, doc, s)
      [] q = "leadingCommentStart" -> leadingCommentStartGetter(cache, doc, s)
      [] q = "trailingCommentEnd"  -> trailingCommentEndMethod(cache, doc, s)
      [] OTHER                     -> PositionMethod(cache, doc, s, q)

\* how many queries are made of one instance
MaxQueries == 3

RECURSIVE SumOver(_, _)
SumOver(f, S) ==
    IF S = {} THEN 0
    ELSE LET x == CHOOSE y \in S : TRUE IN f[x] + SumOver(f, S \ {x})

QueriesMade == SumOver(accessCache.asked, DerivedPositions)

\* a templated class-type with a leading comment, reported without its
\* template statement, holding a member function; and a plain struct before
\* an instance declaration
CacheInputs ==
    { ClassInput(TRUE, TRUE, FALSE, "class", FALSE, <<"def">>, " ", <<";">>),
      ClassInput(FALSE, FALSE, FALSE, "struct", FALSE, <<"field">>, " ", <<" ", "x", ";">>),
      ClassInput(TRUE, FALSE, TRUE, "namespace", FALSE, <<"decl">>, "\n", <<>>) }

InitCache ==
    /\ input \in CacheInputs
    /\ document = ClassDoc(input).document
    /\ symbol \in SymbolsOf(ClassDoc(input))
    /\ accessCache = EmptyCache
    /\ result = NoResult

QueryDerivedPosition(q) ==
    /\ QueriesMade < MaxQueries
    /\ accessCache' = [DerivedPosition(accessCache, document, symbol, q).cache
                          EXCEPT !.asked[q] = @ + 1]
    /\ result' = [op |-> q, value |-> DerivedPosition(accessCache, document, symbol, q).value]
    /\ UNCHANGED <<input, document, symbol>>

\* The instance is dropped and a new CSymbol is constructed for the same symbol.
NewCSymbol ==
    /\ QueriesMade > 0
    /\ accessCache' = EmptyCache
    /\ result' = NoResult
    /\ UNCHANGED <<input, document, symbol>>

NextCache ==
    \/ \E q \in DerivedPositions : QueryDerivedPosition(q)
    \/ NewCSymbol

SpecCache == InitCache /\ [][NextCache]_vars

\* C21: on one instance every derived position is computed at most once,
\* however often it is asked for.
C21_ComputedAtMostOnce ==
    \A q \in DerivedPositions : accessCache.computed[q] <= 1

CachedPositions == {"trueStart", "trueEnd", "leadingCommentStart"}

\* C21 (amended): trueStart, trueEnd and leadingCommentStart are computed at
\* most once on one instance, a later query answers with the value the first
\* one stored; declarationStart, declarationEnd, bodyStart, bodyEnd and
\* trailingCommentEnd have no cache field and are computed at every call.
C21_GettersComputedOnceMethodsAtEveryCall ==
    /\ \A q \in CachedPositions :
          /\ accessCache.computed[q] <= 1
          /\ accessCache.asked[q] > 0 => accessCache[q] # <<>>
          /\ result.op = q => result.value = accessCache[q][1]
    /\ \A q \in DerivedPositions \ CachedPositions :
          accessCache.computed[q] = accessCache.asked[q]

\* trueEnd was asked for twice on one instance and computed once, and
\* trailingCommentEnd was asked for after it.
C21_Witness ==
    /\ accessCache.asked["trueEnd"] = 2 /\ accessCache.computed["trueEnd"] = 1
    /\ result.op = "trailingCommentEnd"


-----------------------------------------------------------------------------
(* The getter and the field it reads                                       *)

\* C30: for every member variable, case style and boolean-prefix option,
\* getterName() is not empty and is not the name of the member variable.
C30_GetterDoesNotShadowField ==
    GetterOfField => (result.value # "" /\ result.value # symbol.name)

\* The member count under snake_case: stripping and formatting leave the
\* name as it is, and the getter is get_count.
C30_Witness ==
    /\ GetterOfField
    /\ symbol.name = "count"
    /\ result.config.caseStyle = "snake_case"
    /\ result.value = "get_count"


-----------------------------------------------------------------------------
(* Generating accessors (src/unnamed/part_002)                             *)

\* CSymbol.isConst()
isConst(doc, s) == ContainsWord(maskAngleBrackets(parsableLeadingText(doc, s), TRUE), "const")

DefinitionLocations == {"Inline", "CurrentFile", "SourceFile"}

\* What the collaborators answer during one operation: the configured
\* definition locations, whether the class document is a header, whether a
\* matching source file is found, and whether
\* findPositionForFunctionDefinition in the class document answers with the
\* position of the declaration.
Environments ==
    [getterDefinitionLocation : DefinitionLocations,
     setterDefinitionLocation : DefinitionLocations,
     isHeader : BOOLEAN, matchingSource : BOOLEAN, atDeclaration : BOOLEAN]

\* the names are formed under snake_case
NamingConfig == [caseStyle |-> "snake_case", boolGetterIsPrefix |-> FALSE]

\* new Getter(symbol) and Setter.create(symbol): the kind and the name
Getter(doc, s) == [kind |-> "getter", name |-> getterName(doc, s, NamingConfig)]

Setter(doc, s) == [kind |-> "setter", name |-> setterName(s, NamingConfig)]

\* getTargetForAccessorDefinition: the document of the definition, and
\* whether its position is the position of the declaration
getTargetForAccessorDefinition(accessor, doc, parent, env) ==
    LET accessorDefinitionLocation ==
            IF accessor.kind = "getter" THEN env.getterDefinitionLocation
            ELSE env.setterDefinitionLocation
    IN IF accessorDefinitionLocation = "Inline"
       THEN [sourceDoc |-> "classDoc", atDeclaration |-> TRUE]
       ELSE IF /\ accessorDefinitionLocation = "SourceFile"
               /\ env.isHeader /\ env.matchingSource /\ ~isTemplate(doc, parent)
       THEN [sourceDoc |-> "matchingSource", atDeclaration |-> FALSE]
       ELSE [sourceDoc |-> "classDoc", atDeclaration |-> env.atDeclaration]

\* workspaceEdit.insert(uri, position, text)
Insert(uri, position, accessor, what) ==
    [uri |-> uri, position |-> position, accessor |-> accessor.name, text |-> what]

\* addNewAccessorToWorkspaceEdit: the workspace edit with the insertions added
addNewAccessorToWorkspaceEdit(newAccessor, declarationPos, doc, parent, env, workspaceEdit) ==
    LET target == getTargetForAccessorDefinition(newAccessor, doc, parent, env) IN
    IF target.sourceDoc = "classDoc" /\ target.atDeclaration
    THEN workspaceEdit
            \o <<Insert("classDoc", <<declarationPos>>, newAccessor, "inline definition")>>
    ELSE workspaceEdit
            \o <<Insert("classDoc", <<declarationPos>>, newAccessor, "declaration"),
                 Insert(target.sourceDoc, <<>>, newAccessor, "definition")>>

\* what an operation did: the workspace edits handed to applyEdit, in the
\* order of the calls, and the message shown
Returned(alert) == [applyEdit |-> <<>>, alert |-> alert]

Applied(workspaceEdit) == [applyEdit |-> <<workspaceEdit>>, alert |-> ""]

\* the accessor a new one of the type is placed relative to: the setter's
\* name for a getter, the getter's name for a setter, none for both
RelativeNameFor(doc, s, type) ==
    CASE type = "Getter" -> setterName(s, NamingConfig)
      [] type = "Setter" -> getterName(doc, s, NamingConfig)
      [] type = "Both" -> ""

\* getPositionForNewAccessorDeclaration(symbol, type)
getPositionForNewAccessorDeclaration(doc, s, parent, type) ==
    findPositionForNewMemberFunction(doc, parent, "public", RelativeNameFor(doc, s, type),
                                     IF type = "Both" THEN NoSymbol ELSE s, NamingConfig)

\* generateGetterFor from its first test on: getter is what findGetterFor
\* found, position what getPositionForNewAccessorDeclaration answered
GenerateGetterFrom(doc, s, parent, env, getter, position) ==
    IF getter # <<>> THEN Returned("getterExists")
    ELSE IF ~position.defined THEN Returned("positionNotFound")
    ELSE Applied(addNewAccessorToWorkspaceEdit(Getter(doc, s), position, doc, parent, env, <<>>))

\* generateSetterFor from its test of the setter on
GenerateSetterFrom(doc, s, parent, env, setter, position) ==
    IF setter # <<>> THEN Returned("setterExists")
    ELSE IF ~position.defined THEN Returned("positionNotFound")
    ELSE Applied(addNewAccessorToWorkspaceEdit(Setter(doc, s), position, doc, parent, env, <<>>))

\* generateSetterFor without the test of isConst
generateSetterForOfConst(doc, s, parent, env) ==
    GenerateSetterFrom(doc, s, parent, env,
                       findSetterFor(doc, parent, s, TRUE, NamingConfig),
                       getPositionForNewAccessorDeclaration(doc, s, parent, "Setter"))

generateGetterFor(doc, s, parent, env) ==
    GenerateGetterFrom(doc, s, parent, env,
                       findGetterFor(doc, parent, s, TRUE, NamingConfig),
                       getPositionForNewAccessorDeclaration(doc, s, parent, "Getter"))

generateSetterFor(doc, s, parent, env) ==
    IF isConst(doc, s) THEN Returned("isConst")
    ELSE GenerateSetterFrom(doc, s, parent, env,
                            findSetterFor(doc, parent, s, TRUE, NamingConfig),
                            getPositionForNewAccessorDeclaration(doc, s, parent, "Setter"))

\* the end of generateGetterSetterFor with one applyEdit for each accessor
GenerateBothApplyingEach(doc, s, parent, env, getterPosition, setterPosition) ==
    [applyEdit |->
        <<addNewAccessorToWorkspaceEdit(Getter(doc, s), getterPosition, doc, parent, env, <<>>),
          addNewAccessorToWorkspaceEdit(Setter(doc, s), setterPosition, doc, parent, env, <<>>)>>,
     alert |-> ""]

\* the end of generateGetterSetterFor: both accessors in one workspace edit
GenerateBoth(doc, s, parent, env, getterPosition, setterPosition) ==
    Applied(addNewAccessorToWorkspaceEdit(Setter(doc, s), setterPosition, doc, parent, env,
                addNewAccessorToWorkspaceEdit(Getter(doc, s), getterPosition, doc, parent, env, <<>>)))

\* new ProposedPosition(getterPosition, {relativeTo, after: true, nextTo: true, emptyScope})
SetterPositionAfter(getterPosition) ==
    ProposedPosition(getterPosition.value, getterPosition.relativeTo,
                     FALSE, TRUE, TRUE, getterPosition.indent)

\* generateGetterSetterFor from its tests on: getter and setter tell whether
\* findGetterFor and findSetterFor found a child, getterAlone and setterAlone
\* are what generateGetterFor and generateSetterFor do for the symbol
GenerateGetterSetterFrom(doc, s, parent, env, getter, setter, getterPosition, getterAlone, setterAlone) ==
    IF isConst(doc, s)
    THEN IF getter THEN Returned("isConst getterExists") ELSE getterAlone
    ELSE IF getter /\ ~setter THEN setterAlone
    ELSE IF ~getter /\ setter THEN getterAlone
    ELSE IF getter /\ setter THEN Returned("getterAndSetterExists")
    ELSE IF ~getterPosition.defined THEN Returned("positionNotFound")
    ELSE GenerateBoth(doc, s, parent, env, getterPosition, SetterPositionAfter(getterPosition))

generateGetterSetterFor(doc, s, parent, env) ==
    GenerateGetterSetterFrom(doc, s, parent, env,
        findGetterFor(doc, parent, s, TRUE, NamingConfig) # <<>>,
        findSetterFor(doc, parent, s, TRUE, NamingConfig) # <<>>,
        getPositionForNewAccessorDeclaration(doc, s, parent, "Both"),
        generateGetterFor(doc, s, parent, env),
        generateSetterFor(doc, s, parent, env))

\* class C and struct C, templated or not, of up to three items with one
\* member variable a, const or not, and maybe its getter and its setter
GenerateItems == {"field", "cfield", "decl", "def", "pub"}

MemberVariableCount(items) ==
    Cardinality({k \in 1..Len(items) : items[k] \in {"field", "cfield"}})

GenerateInputs ==
    { ClassInput(FALSE, template, template, kw, FALSE, items, " ", <<";">>) :
        template \in BOOLEAN, kw \in {"class", "struct"},
        items \in {q \in SeqsUpTo(GenerateItems, 3) : MemberVariableCount(q) = 1} }

InitGenerate ==
    /\ input \in GenerateInputs
    /\ document = ClassDoc(input).document
    /\ symbol \in {c \in MembersOf(ClassDoc(input)) : isMemberVariable(c)}
    /\ accessCache = <<>>
    /\ result = NoResult

GenerateGetterSetterFor(env) ==
    /\ result.op = "none"
    /\ result' = [op |-> "generateGetterSetterFor", env |-> env,
                  did |-> generateGetterSetterFor(document, symbol, TopSymbol, env)]
    /\ UNCHANGED <<input, document, symbol, accessCache>>

GenerateGetterFor(env) ==
    /\ result.op = "none"
    /\ result' = [op |-> "generateGetterFor", env |-> env,
                  did |-> generateGetterFor(document, symbol, TopSymbol, env)]
    /\ UNCHANGED <<input, document, symbol, accessCache>>

GenerateSetterFor(env) ==
    /\ result.op = "none"
    /\ result' = [op |-> "generateSetterFor", env |-> env,
                  did |-> generateSetterFor(document, symbol, TopSymbol, env)]
    /\ UNCHANGED <<input, document, symbol, accessCache>>

NextGenerate ==
    \/ \E env \in Environments : GenerateGetterSetterFor(env)
    \/ \E env \in Environments : GenerateGetterFor(env)
    \/ \E env \in Environments : GenerateSetterFor(env)
    \/ NewInstance

SpecGenerate == InitGenerate /\ [][NextGenerate]_vars

\* what the class was written with
WrittenItems == {input.items[k] : k \in 1..Len(input.items)}

WrittenConst == "cfield" \in WrittenItems

WrittenGetter == "def" \in WrittenItems

WrittenSetter == "decl" \in WrittenItems

Generating == result.op \in {"generateGetterSetterFor", "generateGetterFor", "generateSetterFor"}

\* the accessors the operation is to generate
AccessorsToGenerate ==
    CASE result.op = "generateGetterFor" -> IF WrittenGetter THEN {} ELSE {"get_a"}
      [] result.op = "generateSetterFor" ->
            IF WrittenConst \/ WrittenSetter THEN {} ELSE {"set_a"}
      [] result.op = "generateGetterSetterFor" ->
            IF WrittenConst THEN (IF WrittenGetter THEN {} ELSE {"get_a"})
            ELSE (IF WrittenGetter THEN {} ELSE {"get_a"})
                     \cup (IF WrittenSetter THEN {} ELSE {"set_a"})

\* the texts inserted for accessor name by the workspace edit
TextsFor(workspaceEdit, name) ==
    {workspaceEdit[k].text : k \in {j \in 1..Len(workspaceEdit) : workspaceEdit[j].accessor = name}}

\* the accessors a workspace edit inserts
AccessorsOf(workspaceEdit) == {workspaceEdit[k].accessor : k \in 1..Len(workspaceEdit)}

\* C22: an operation calls applyEdit at most once, with one workspace edit
\* that holds the declaration and the definition of every accessor it
\* generates, and does not call it when a guard fails.
C22_OneApplyEdit ==
    Generating =>
        /\ Len(result.did.applyEdit) <= 1
        /\ AccessorsToGenerate = {} => result.did.applyEdit = <<>>
        /\ AccessorsToGenerate # {} =>
              /\ Len(result.did.applyEdit) = 1
              /\ \A name \in AccessorsToGenerate :
                    TextsFor(result.did.applyEdit[1], name)
                        \in {{"inline definition"}, {"declaration", "definition"}}

\* Both accessors were generated, one defined inline and one in the
\* matching source file: three insertions in the one workspace edit.
C22_Witness ==
    /\ result.op = "generateGetterSetterFor"
    /\ Len(result.did.applyEdit) = 1
    /\ Len(result.did.applyEdit[1]) = 3
    /\ AccessorsOf(result.did.applyEdit[1]) = {"get_a", "set_a"}

\* every accessor inserted by the operation
Generated ==
    UNION {AccessorsOf(result.did.applyEdit[k]) : k \in 1..Len(result.did.applyEdit)}

\* the declaration (or inline definition) of accessor name in the workspace edit
DeclarationIn(workspaceEdit, name) ==
    workspaceEdit[CHOOSE k \in 1..Len(workspaceEdit) :
                    /\ workspaceEdit[k].accessor = name
                    /\ workspaceEdit[k].text \in {"declaration", "inline definition"}]

\* C25: generateGetterSetterFor generates a getter only for a const member
\* (nothing if it has one), the missing accessor when one of them exists,
\* nothing when both exist, and both when neither exists, the setter after
\* and next to the place of the getter; no operation generates a setter for a
\* const member or an accessor named like a child of the class.
C25_WhatIsGenerated ==
    /\ result.op = "generateGetterSetterFor" =>
          /\ Generated = AccessorsToGenerate
          /\ Generated = {"get_a", "set_a"} =>
                LET getterPosition == DeclarationIn(result.did.applyEdit[1], "get_a").position[1]
                    setterPosition == DeclarationIn(result.did.applyEdit[1], "set_a").position[1]
                IN /\ getterPosition.defined
                   /\ setterPosition.value = getterPosition.value
                   /\ setterPosition.relativeTo = getterPosition.relativeTo
                   /\ setterPosition.after /\ setterPosition.nextTo
    /\ Generating =>
          /\ WrittenConst => "set_a" \notin Generated
          /\ \A k \in 1..Len(TopSymbol.children) : TopSymbol.children[k].name \notin Generated

\* Neither accessor exists and both were generated.
C25_Witness ==
    /\ result.op = "generateGetterSetterFor"
    /\ ~WrittenConst /\ ~WrittenGetter /\ ~WrittenSetter
    /\ Generated = {"get_a", "set_a"}

-----------------------------------------------------------------------------
(* The header/source cache (src/unnamed/part_001, HeaderSourceCache)       *)

\* a file URI: its directory (a path of segments), file name base and extension
Uri(dir, base, ext) == [dir |-> dir, base |-> base, ext |-> ext]

\* p/x/a.h, p/x/a.cpp, p/z/a.cpp and q/y/a.cpp of one workspace folder
Uris ==
    { Uri(<<"p", "x">>, "a", "h"), Uri(<<"p", "x">>, "a", "cpp"),
      Uri(<<"p", "z">>, "a", "cpp"), Uri(<<"q", "y">>, "a", "cpp") }

\* cfg.headerExtensions and cfg.sourceExtensions
headerExtensions == {"h", "hpp"}

sourceExtensions == {"c", "cpp"}

\* the files of the workspace that exist, and the cache: a map from the
\* URIs that have an entry to their match
workspaceFiles == input

headerSourceCache == accessCache

\* util.uriExists
uriExists(files, uri) == uri \in files

\* path.dirname of a directory
Dirname(dir) == SubSeq(dir, 1, Len(dir) - 1)

\* directory dir lies in directory top
Within(dir, top) == Len(top) <= Len(dir) /\ SubSeq(dir, 1, Len(top)) = top

\* util.compareDirectoryPaths: the number of segments in which two paths differ
compareDirectoryPaths(dir, directoryToCompare) ==
    Cardinality({k \in 1..Len(dir) : k > Len(directoryToCompare) \/ dir[k] # directoryToCompare[k]})
        + (IF Len(directoryToCompare) > Len(dir) THEN Len(directoryToCompare) - Len(dir) ELSE 0)

\* findBestMatchingUri: the first of the URIs with the smallest difference,
\* in whichever order findFiles reported them
findBestMatchingUri(directoryToCompare, uris) ==
    {uri \in uris : \A other \in uris :
        compareDirectoryPaths(uri.dir, directoryToCompare)
            <= compareDirectoryPaths(other.dir, directoryToCompare)}

\* the files matching **/baseName.{extensions}
FindFiles(files, fileNameBase, extensions) ==
    {f \in files : f.base = fileNameBase /\ f.ext \in extensions}

\* the search of findMatchingHeaderSource for files of the given extensions:
\* below the parent directory first, in the whole workspace otherwise
SearchFor(files, uri, extensions) ==
    LET parentDirRelativeUris ==
            {f \in FindFiles(files, uri.base, extensions) : Within(f.dir, Dirname(uri.dir))}
    IN IF parentDirRelativeUris # {}
       THEN findBestMatchingUri(uri.dir, parentDirRelativeUris)
       ELSE findBestMatchingUri(uri.dir, FindFiles(files, uri.base, extensions))

\* findMatchingHeaderSource: the URIs it may answer, {} for undefined
findMatchingHeaderSource(files, uri) ==
    IF uri.ext \in headerExtensions THEN SearchFor(files, uri, sourceExtensions)
    ELSE IF uri.ext \in sourceExtensions THEN SearchFor(files, uri, headerExtensions)
    ELSE {}

\* A call in progress: the cache, what was done to it and asked of the
\* workspace so far, and the value returned (<<>> for undefined).
Call(cache) == [cache |-> cache, log |-> <<>>, returned |-> <<>>]

Logged(call, event) == [call EXCEPT !.log = Append(@, event)]

\* set(uri_a, uri_b)
set(call, uri_a, uri_b) ==
    Logged([call EXCEPT !.cache = (uri_b :> uri_a) @@ (uri_a :> uri_b) @@ @],
           [did |-> "set", uris |-> {uri_a, uri_b}])

\* delete(...uris)
delete(call, uris) ==
    Logged([call EXCEPT !.cache = [u \in (DOMAIN @) \ uris |-> @[u]]],
           [did |-> "delete", uris |-> uris])

\* findAndSet(uri), where found is what findMatchingHeaderSource answers
findAndSet(call, uri, found) ==
    LET searched == Logged(call, [did |-> "search", uris |-> {uri}])
    IN IF found = <<>> THEN searched
       ELSE [set(searched, uri, found[1]) EXCEPT !.returned = found]

\* get(uri) deleting only the entry of uri when the cached match is gone
getForgettingOnlyUri(call, files, uri, found) ==
    IF uri \in DOMAIN call.cache
    THEN IF uriExists(files, call.cache[uri])
         THEN [call EXCEPT !.returned = <<call.cache[uri]>>]
         ELSE findAndSet(delete(call, {uri}), uri, found)
    ELSE findAndSet(call, uri, found)

\* get(uri)
get(call, files, uri, found) ==
    IF uri \in DOMAIN call.cache
    THEN IF uriExists(files, call.cache[uri])
         THEN [call EXCEPT !.returned = <<call.cache[uri]>>]
         ELSE findAndSet(delete(call, {uri, call.cache[uri]}), uri, found)
    ELSE findAndSet(call, uri, found)

\* add(uri)
add(call, uri, found) == [findAndSet(call, uri, found) EXCEPT !.returned = <<>>]

\* what findMatchingHeaderSource answers when asked: one of the best matches,
\* or undefined
SearchAnswers(files, uri) ==
    IF findMatchingHeaderSource(files, uri) = {} THEN {<<>>}
    ELSE {<<m>> : m \in findMatchingHeaderSource(files, uri)}

Called(op, uris, call) == [op |-> op, uris |-> uris, returned |-> call.returned, log |-> call.log]

InitHeaderSource ==
    /\ input \in SUBSET Uris
    /\ document = <<>>
    /\ symbol = <<>>
    /\ accessCache = <<>>
    /\ result = NoResult

CacheGet(uri) ==
    \E found \in SearchAnswers(workspaceFiles, uri) :
        /\ accessCache' = get(Call(headerSourceCache), workspaceFiles, uri, found).cache
        /\ result' = Called("get", <<uri>>, get(Call(headerSourceCache), workspaceFiles, uri, found))
        /\ UNCHANGED <<input, document, symbol>>

CacheAdd(uri) ==
    \E found \in SearchAnswers(workspaceFiles, uri) :
        /\ accessCache' = add(Call(headerSourceCache), uri, found).cache
        /\ result' = Called("add", <<uri>>, add(Call(headerSourceCache), uri, found))
        /\ UNCHANGED <<input, document, symbol>>

CacheSet(uri_a, uri_b) ==
    /\ accessCache' = set(Call(headerSourceCache), uri_a, uri_b).cache
    /\ result' = Called("set", <<uri_a, uri_b>>, set(Call(headerSourceCache), uri_a, uri_b))
    /\ UNCHANGED <<input, document, symbol>>

CacheDelete(uris) ==
    /\ accessCache' = delete(Call(headerSourceCache), uris).cache
    /\ result' = Called("delete", <<uris>>, delete(Call(headerSourceCache), uris))
    /\ UNCHANGED <<input, document, symbol>>

\* a file of the workspace is created or removed
FileCreated(uri) ==
    /\ uri \notin workspaceFiles
    /\ input' = workspaceFiles \cup {uri}
    /\ result' = [op |-> "created", uris |-> <<uri>>, returned |-> <<>>, log |-> <<>>]
    /\ UNCHANGED <<document, symbol, accessCache>>

FileRemoved(uri) ==
    /\ uri \in workspaceFiles
    /\ input' = workspaceFiles \ {uri}
    /\ result' = [op |-> "removed", uris |-> <<uri>>, returned |-> <<>>, log |-> <<>>]
    /\ UNCHANGED <<document, symbol, accessCache>>

NextHeaderSource ==
    \/ \E uri \in Uris : CacheGet(uri)
    \/ \E uri \in Uris : CacheAdd(uri)
    \/ \E uri_a \in Uris : \E uri_b \in Uris \ {uri_a} : CacheSet(uri_a, uri_b)
    \/ \E uris \in {d \in SUBSET Uris : Cardinality(d) \in {1, 2}} : CacheDelete(uris)
    \/ \E uri \in Uris : FileCreated(uri)
    \/ \E uri \in Uris : FileRemoved(uri)

SpecHeaderSource == InitHeaderSource /\ [][NextHeaderSource]_vars

\* the step is a call of get(uri)
GetStep(uri) == result'.op = "get" /\ result'.uris = <<uri>>

Cached(uri) == uri \in DOMAIN headerSourceCache

Stale(uri) == Cached(uri) /\ ~uriExists(workspaceFiles, headerSourceCache[uri])

Searches(log) == {k \in 1..Len(log) : log[k].did = "search"}

\* C23: get(uri) returns a cached match that still exists without searching;
\* it deletes the entries of uri and of a cached match that no longer exists
\* before searching; when nothing is cached or the match was stale it searches
\* the workspace once, stores a found match in both directions and returns it,
\* and returns undefined, leaving no entry for uri, when nothing is found.
C23_Get ==
    [][\A uri \in Uris : GetStep(uri) =>
        /\ (Cached(uri) /\ ~Stale(uri)) =>
              /\ result'.returned = <<headerSourceCache[uri]>>
              /\ result'.log = <<>>
              /\ accessCache' = accessCache
        /\ Stale(uri) =>
              /\ Len(result'.log) >= 2
              /\ result'.log[1] = [did |-> "delete", uris |-> {uri, headerSourceCache[uri]}]
              /\ result'.log[2].did = "search"
              /\ headerSourceCache[uri] \notin DOMAIN accessCache'
        /\ (~Cached(uri) \/ Stale(uri)) =>
              /\ Cardinality(Searches(result'.log)) = 1
              /\ findMatchingHeaderSource(workspaceFiles, uri) # {} =>
                    /\ result'.returned # <<>>
                    /\ result'.returned[1] \in findMatchingHeaderSource(workspaceFiles, uri)
                    /\ uri \in DOMAIN accessCache'
                    /\ accessCache'[uri] = result'.returned[1]
                    /\ result'.returned[1] \in DOMAIN accessCache'
                    /\ accessCache'[result'.returned[1]] = uri
              /\ findMatchingHeaderSource(workspaceFiles, uri) = {} =>
                    /\ result'.returned = <<>>
                    /\ uri \notin DOMAIN accessCache'
      ]_vars

\* get(uri) found its cached match gone, deleted both entries, searched and
\* stored the match it found.
C23_Witness ==
    /\ result.op = "get"
    /\ Len(result.log) = 3
    /\ result.log[1].did = "delete"
    /\ result.log[3].did = "set"
    /\ result.returned # <<>>
    /\ headerSourceCache[result.uris[1]] = result.returned[1]

\* C29: the cache is symmetric: whenever it maps a to b it maps b to a.
C29_Symmetric ==
    \A a \in DOMAIN headerSourceCache :
        /\ headerSourceCache[a] \in DOMAIN headerSourceCache
        /\ headerSourceCache[headerSourceCache[a]] = a

-----------------------------------------------------------------------------
(* The earlier CSymbol (src/unnamed/part_001)                              *)

\* { value, before, after, nextTo } of the earlier findPositionForNewMethod
EarlierPosition(value, before, after, nextTo) ==
    [defined |-> TRUE, value |-> value, before |-> before, after |-> after, nextTo |-> nextTo]

lastChildPositionOrUndefined(s) ==
    IF Len(s.children) = 0 THEN Undefined
    ELSE EarlierPosition(s.children[Len(s.children)].range.end, FALSE, TRUE, FALSE)

symbolIsBetween(child, afterOffset, beforeOffset) ==
    isFunction(child) /\ child.range.start > afterOffset /\ child.range.end < beforeOffset

\* /\bpublic\s*:/g.exec(text)?.index, -1 for undefined
PublicSpecifierIndex(txt) ==
    LET found == {i \in 1..Len(txt) :
                    /\ txt[i] = "public"
                    /\ SkipWhite(txt, i + 1) <= Len(txt)
                    /\ txt[SkipWhite(txt, i + 1)] = ":"}
    IN IF found = {} THEN -1 ELSE (CHOOSE i \in found : \A j \in found : i <= j) - 1

\* the loop over text.matchAll(/\w[\w\d]*\s*:(?!:)/g): the index of the first
\* match that is not 0 and greater than publicSpecifierOffset, -1 for undefined
NextSpecifierIndex(matches, k, publicSpecifierOffset) ==
    LET found == {j \in k..Len(matches) :
                    matches[j][1] # 0 /\ matches[j][1] > publicSpecifierOffset}
    IN IF found = {} THEN -1
       ELSE matches[CHOOSE j \in found : \A other \in found : j <= other][1]

\* the last child up to the k-th that is a function between the offsets, 0 if none
LastChildBetween(s, k, afterOffset, beforeOffset) ==
    LET found == {i \in 1..k : symbolIsBetween(s.children[i], afterOffset, beforeOffset)}
    IN IF found = {} THEN 0 ELSE CHOOSE i \in found : \A j \in found : j <= i

\* the last such child up to the k-th that is named relativeName, 0 if none
LastChildNamedBetween(s, k, relativeName, afterOffset, beforeOffset) ==
    LET found == {i \in 1..k : /\ symbolIsBetween(s.children[i], afterOffset, beforeOffset)
                               /\ s.children[i].name = relativeName}
    IN IF found = {} THEN 0 ELSE CHOOSE i \in found : \A j \in found : j <= i

\* findPositionForNewMethod from the loop over the children on; the offsets
\* are publicSpecifierOffset and nextAccessSpecifierOffset, fallback is the
\* child of fallbackPosition (fallbackIndex + 1, 0 when there is none), named
\* the child next to which the method goes (0 when there is none)
FindPositionForNewMethodFrom(s, relativeName, isGetter, fallback, named) ==
    IF fallback = 0 \/ fallback = 1 THEN lastChildPositionOrUndefined(s)
    ELSE IF relativeName = "" THEN EarlierPosition(s.children[fallback].range.end, FALSE, TRUE, FALSE)
    ELSE IF named # 0
    THEN IF isGetter THEN EarlierPosition(s.children[named].range.start, TRUE, FALSE, TRUE)
         ELSE EarlierPosition(s.children[named].range.end, FALSE, TRUE, TRUE)
    ELSE EarlierPosition(s.children[fallback].range.end, FALSE, TRUE, FALSE)

\* findPositionForNewMethod between the two offsets
FindPositionForNewMethodBetween(s, relativeName, isGetter, publicSpecifierOffset, nextAccessSpecifierOffset) ==
    FindPositionForNewMethodFrom(s, relativeName, isGetter,
        LastChildBetween(s, Len(s.children), publicSpecifierOffset, nextAccessSpecifierOffset),
        LastChildNamedBetween(s,
            LastChildBetween(s, Len(s.children), publicSpecifierOffset, nextAccessSpecifierOffset),
            relativeName, publicSpecifierOffset, nextAccessSpecifierOffset))

\* findPositionForNewMethod after the public specifier was found at index
\* publicSpecifierIndex of the text; next is the index of the specifier after
\* it as the loop found it
FindPositionForNewMethodAfter(doc, s, relativeName, isGetter, publicSpecifierOffset, next) ==
    FindPositionForNewMethodBetween(s, relativeName, isGetter, publicSpecifierOffset,
        IF next = -1 \/ next = 0 THEN s.range.end ELSE next + s.range.start)

\* findPositionForNewMethod(relativeName, memberVariable)
findPositionForNewMethod(doc, s, relativeName, isGetter) ==
    IF s.kind # "class" /\ s.kind # "struct" THEN lastChildPositionOrUndefined(s)
    ELSE IF PublicSpecifierIndex(GetText(doc, s.range)) = -1 \/ PublicSpecifierIndex(GetText(doc, s.range)) = 0
    THEN lastChildPositionOrUndefined(s)
    ELSE FindPositionForNewMethodAfter(doc, s, relativeName, isGetter,
            PublicSpecifierIndex(GetText(doc, s.range)) + s.range.start,
            NextSpecifierIndex(MatchAllSpecifiers(GetText(doc, s.range), 1), 1,
                               PublicSpecifierIndex(GetText(doc, s.range)) + s.range.start))

\* the symbols as reported: the earlier CSymbol keeps the range it is given
ReportedSymbols(d) == {d.symbol} \cup {d.symbol.children[k] : k \in 1..Len(d.symbol.children)}

InitEarlier ==
    /\ input \in Inputs
    /\ document = ClassDoc(input).document
    /\ symbol \in ReportedSymbols(ClassDoc(input))
    /\ accessCache = <<>>
    /\ result = NoResult

QueryFindPositionForNewMethod(relativeName, memberVariable) ==
    /\ result.op = "none"
    /\ result' = [op |-> "findPositionForNewMethod", relativeName |-> relativeName,
                  memberVariable |-> memberVariable,
                  value |-> findPositionForNewMethod(document, symbol, relativeName,
                                IF memberVariable # NoSymbol
                                THEN relativeName = setterName(memberVariable, NamingConfig)
                                ELSE FALSE)]
    /\ UNCHANGED <<input, document, symbol, accessCache>>

NextEarlier ==
    \/ \E relativeName \in RelativeNames : \E memberVariable \in MemberVariables :
          QueryFindPositionForNewMethod(relativeName, memberVariable)
    \/ NewInstance

SpecEarlier == InitEarlier /\ [][NextEarlier]_vars

\* C24: findPositionForNewMethod returns undefined if the symbol is not a
\* class or a struct or has no children, and a position in every other case.
C24_UndefinedUnlessClassWithChildren ==
    result.op = "findPositionForNewMethod" =>
        (result.value.defined <=> (symbol.kind \in {"class", "struct"} /\ Len(symbol.children) > 0))

\* a position is returned exactly when the symbol has children
PositionIffChildren ==
    result.op = "findPositionForNewMethod" => (result.value.defined <=> Len(symbol.children) > 0)

-----------------------------------------------------------------------------
(* Code actions (src/src/codeActions.ts)                                   *)

\* What provideCodeActions finds: whether getSymbol found a symbol, what the
\* symbol answers, whether findDefinition found a definition, and what the
\* source file answers. Without a symbol every symbol?.x() is undefined.
Situations ==
    { c \in [hasSymbol : BOOLEAN, isInline : BOOLEAN, isConstexpr : BOOLEAN,
             isFunctionDeclaration : BOOLEAN, isMemberVariable : BOOLEAN,
             existingDefinition : BOOLEAN, isHeader : BOOLEAN, matchingUri : BOOLEAN,
             hasHeaderGuard : BOOLEAN] :
        /\ ~c.hasSymbol => ~(c.isInline \/ c.isConstexpr \/ c.isFunctionDeclaration
                                \/ c.isMemberVariable \/ c.existingDefinition)
        /\ c.isMemberVariable => ~(c.isFunctionDeclaration \/ c.isInline) }

\* the five disabled variables, "" for undefined, and sourceTitle
NothingDisabled ==
    [sourceDisabled |-> "", currentDisabled |-> "", newSourceDisabled |-> "",
     headerGuardDisabled |-> "", getterSetterDisabled |-> "", sourceTitle |-> "Add Definition"]

IfInline(d, c) == IF c.isInline THEN [d EXCEPT !.sourceDisabled = "isInline"] ELSE d

IfConstexpr(d, c) == IF c.isConstexpr THEN [d EXCEPT !.sourceDisabled = "isConstexpr"] ELSE d

IfNotFunctionDeclaration(d, c) ==
    IF ~c.isFunctionDeclaration
    THEN [d EXCEPT !.sourceDisabled = "notFunctionDeclaration",
                   !.currentDisabled = "notFunctionDeclaration"]
    ELSE d

\* the test of existingDefinition disabling only the definition in the source file
IfExistingDefinitionSourceOnly(d, c) ==
    IF c.existingDefinition THEN [d EXCEPT !.sourceDisabled = "definitionExists"] ELSE d

IfExistingDefinition(d, c) ==
    IF c.existingDefinition
    THEN [d EXCEPT !.sourceDisabled = "definitionExists", !.currentDisabled = "definitionExists"]
    ELSE d

IfNotHeader(d, c) ==
    IF ~c.isHeader
    THEN [d EXCEPT !.sourceDisabled = "notHeaderFile", !.newSourceDisabled = "notHeaderFile",
                   !.headerGuardDisabled = "notHeaderFile",
                   !.sourceTitle = "Add Definition in matching source file"]
    ELSE IF c.matchingUri
    THEN [d EXCEPT !.newSourceDisabled = "A matching source file already exists.",
                   !.sourceTitle = "Add Definition in \"path\""]
    ELSE [d EXCEPT !.sourceDisabled = "noMatchingSourceFile",
                   !.sourceTitle = "Add Definition in matching source file"]

IfHeaderGuard(d, c) ==
    IF c.hasHeaderGuard THEN [d EXCEPT !.headerGuardDisabled = "A header guard already exists."]
    ELSE d

IfNotMemberVariable(d, c) ==
    IF ~c.isMemberVariable THEN [d EXCEPT !.getterSetterDisabled = "Symbol is not a member variable."]
    ELSE d

\* the guards of provideCodeActions, in their order
Disabled(c) ==
    IfNotMemberVariable(IfHeaderGuard(IfNotHeader(IfExistingDefinition(
        IfNotFunctionDeclaration(IfConstexpr(IfInline(NothingDisabled, c), c), c), c), c), c), c)

CodeAction(title, command, arguments, disabled) ==
    [title |-> title, command |-> command, arguments |-> arguments, disabled |-> disabled]

\* the array returned by provideCodeActions
CodeActionsOf(d) ==
    << CodeAction(d.sourceTitle, "cmantic.addDefinition", "matchingUri", d.sourceDisabled),
       CodeAction("Add Definition in this file", "cmantic.addDefinition", "sourceFile.uri",
                  d.currentDisabled),
       CodeAction("Generate 'get' and 'set' methods", "cmantic.generateGetterSetterFor", "symbol",
                  d.getterSetterDisabled),
       CodeAction("Generate 'get' method", "cmantic.generateGetterFor", "symbol",
                  d.getterSetterDisabled),
       CodeAction("Generate 'set' method", "cmantic.generateSetterFor", "symbol",
                  d.getterSetterDisabled),
       CodeAction("Add Header Guard", "cmantic.addHeaderGuard", "", d.headerGuardDisabled),
       CodeAction("Add Include", "cmantic.addInclude", "", ""),
       CodeAction("Create Matching Source File", "cmantic.createMatchingSourceFile", "",
                  d.newSourceDisabled) >>

provideCodeActions(c) == CodeActionsOf(Disabled(c))

InitCodeActions ==
    /\ input \in Situations
    /\ document = <<>>
    /\ symbol = <<>>
    /\ accessCache = <<>>
    /\ result = NoResult

ProvideCodeActions ==
    /\ result.op = "none"
    /\ result' = [op |-> "provideCodeActions", actions |-> provideCodeActions(input)]
    /\ UNCHANGED <<input, document, symbol, accessCache>>

NextCodeActions == ProvideCodeActions \/ NewInstance

SpecCodeActions == InitCodeActions /\ [][NextCodeActions]_vars

\* the action of the array running the command with the arguments is enabled
Enabled(command, arguments) ==
    \E k \in 1..Len(result.actions) :
        /\ result.actions[k].command = command
        /\ result.actions[k].arguments = arguments
        /\ result.actions[k].disabled = ""

\* C26: provideCodeActions returns the same eight actions in every situation;
\* the definition in this file is enabled iff the symbol is a function
\* declaration without a found definition, the definition in the matching
\* source file iff moreover the file is a header with a matching source file
\* and the symbol is neither inline nor constexpr, the three accessor actions
\* iff the symbol is a member variable, the new source file iff the file is a
\* header without a matching source file, and Add Include always; without a
\* symbol the five actions that take the symbol are disabled.
C26_CodeActions ==
    result.op = "provideCodeActions" =>
        /\ [k \in 1..Len(result.actions) |-> result.actions[k].command]
              = << "cmantic.addDefinition", "cmantic.addDefinition",
                   "cmantic.generateGetterSetterFor", "cmantic.generateGetterFor",
                   "cmantic.generateSetterFor", "cmantic.addHeaderGuard", "cmantic.addInclude",
                   "cmantic.createMatchingSourceFile" >>
        /\ Enabled("cmantic.addDefinition", "sourceFile.uri")
              <=> (input.isFunctionDeclaration /\ ~input.existingDefinition)
        /\ Enabled("cmantic.addDefinition", "matchingUri")
              <=> (/\ input.isFunctionDeclaration /\ ~input.existingDefinition
                   /\ input.isHeader /\ input.matchingUri
                   /\ ~input.isInline /\ ~input.isConstexpr)
        /\ \A command \in {"cmantic.generateGetterSetterFor", "cmantic.generateGetterFor",
                           "cmantic.generateSetterFor"} :
              Enabled(command, "symbol") <=> input.isMemberVariable
        /\ Enabled("cmantic.createMatchingSourceFile", "") <=> (input.isHeader /\ ~input.matchingUri)
        /\ Enabled("cmantic.addInclude", "")
        /\ ~input.hasSymbol =>
              \A k \in 1..5 : result.actions[k].disabled # ""

\* A function declaration in a header with a matching source file and no
\* definition: both definitions are offered.
C26_Witness ==
    /\ result.op = "provideCodeActions"
    /\ input.isFunctionDeclaration /\ input.isHeader /\ input.matchingUri
    /\ Enabled("cmantic.addDefinition", "sourceFile.uri")
    /\ Enabled("cmantic.addDefinition", "matchingUri")
    /\ ~Enabled("cmantic.createMatchingSourceFile", "")

-----------------------------------------------------------------------------
(* Where the access specifiers lie                                         *)

\* the range lies in the body of the symbol and in no direct child
InsideBodyOutsideChildren(range) ==
    /\ bodyStart(document, symbol) <= range.start
    /\ range.end <= bodyEnd(document, symbol)
    /\ \A k \in 1..Len(symbol.children) :
          \/ range.end <= CSymbol(document, symbol.children[k]).range.start
          \/ CSymbol(document, symbol.children[k]).range.end <= range.start

\* C27: every access specifier reported by accessSpecifiers lies between
\* bodyStart() and bodyEnd() and outside every direct child; the class name
\* followed by the colon of a base-class list is not reported.
C27_SpecifiersInsideBody ==
    (result.op = "accessSpecifiers" /\ isClassType(symbol)) =>
        \A k \in 1..Len(result.value) : InsideBodyOutsideChildren(result.value[k].range)

\* The same statement for class-types written without a base-class list.
SpecifiersInsideBodyWithoutBase ==
    (result.op = "accessSpecifiers" /\ isClassType(symbol) /\ ~input.base) =>
        \A k \in 1..Len(result.value) : InsideBodyOutsideChildren(result.value[k].range)

-----------------------------------------------------------------------------
(* Function declarations and definitions                                   *)

\* a declaration, a definition, a constructor with an initializer list, a
\* deleted and a defaulted constructor, two pure virtual functions, a
\* declaration with a default argument of 0, and two member variables
FunctionItems ==
    {"decl", "def", "ctor", "deleted", "defaulted", "pure", "purefinal", "zeroarg", "defarg",
     "field", "zerofield"}

FunctionInputs ==
    { ClassInput(FALSE, FALSE, FALSE, kw, FALSE, items, sep, <<";">>) :
        kw \in {"class", "struct"}, items \in SeqsUpTo(FunctionItems, 2), sep \in {" ", "\n"} }

InitFunctions ==
    /\ input \in FunctionInputs
    /\ document = ClassDoc(input).document
    /\ symbol \in SymbolsOf(ClassDoc(input))
    /\ accessCache = <<>>
    /\ result = NoResult

QueryFunctionKind ==
    /\ result.op = "none"
    /\ result' = [op |-> "functionKind",
                  isFunctionDeclaration |-> isFunctionDeclaration(document, symbol),
                  isFunctionDefinition |-> isFunctionDefinition(document, symbol)]
    /\ UNCHANGED <<input, document, symbol, accessCache>>

NextFunctions == QueryFunctionKind \/ NewInstance

SpecFunctions == InitFunctions /\ [][NextFunctions]_vars

\* the item the symbol was written as, "" for the class itself
WrittenAs ==
    IF symbol = TopSymbol THEN ""
    ELSE input.items[CHOOSE k \in 1..Len(input.items) :
                        CSymbol(document, ClassDoc(input).symbol.children[k]) = symbol]

WrittenFunction ==
    WrittenAs \in {"decl", "def", "ctor", "deleted", "defaulted", "pure", "purefinal",
                   "zeroarg", "defarg"}

WrittenDeletedDefaultedOrPure == WrittenAs \in {"deleted", "defaulted", "pure", "purefinal"}

\* C28: isFunctionDeclaration() and isFunctionDefinition() are never both
\* true; exactly one is true of a function that is not deleted, defaulted or
\* pure virtual; both are false of a deleted, defaulted or pure virtual
\* function and of every symbol that is not a function.
C28_DeclarationXorDefinition ==
    result.op = "functionKind" =>
        /\ ~(result.isFunctionDeclaration /\ result.isFunctionDefinition)
        /\ (WrittenFunction /\ ~WrittenDeletedDefaultedOrPure) =>
              (result.isFunctionDeclaration # result.isFunctionDefinition)
        /\ (~WrittenFunction \/ WrittenDeletedDefaultedOrPure) =>
              (~result.isFunctionDeclaration /\ ~result.isFunctionDefinition)
        /\ WrittenAs \in {"decl", "zeroarg", "defarg"} => result.isFunctionDeclaration
        /\ WrittenAs \in {"def", "ctor"} => result.isFunctionDefinition

\* A deleted constructor was asked: it is neither.
C28_Witness ==
    /\ result.op = "functionKind"
    /\ WrittenAs = "deleted"
    /\ ~result.isFunctionDeclaration /\ ~result.isFunctionDefinition

====
